---- MODULE Spec2Model ----
(***************************************************************************)
(* ContentTracker (src/twitter_bot/core/content_tracker.py): the store of  *)
(* five collections, its retention pruning, the News/Personal classifier,  *)
(* the TF-IDF cosine duplicate detector and the reply / RSS / theme        *)
(* membership trackers.                                                    *)
(*                                                                         *)
(* Representation.  A Python str is a sequence of one-character strings.   *)
(* Time is counted in hours.  datetime.isoformat() yields [iso |-> t] and  *)
(* datetime.fromisoformat() accepts exactly the values of that shape.      *)
(*                                                                         *)
(* Around the tracker: its two users, TwitterBotClient (src/bot/client.py) *)
(* and EmailPipeline (src/email_pipeline/pipeline.py), each with a tracker *)
(* of its own on the same file; APIUsageTracker                            *)
(* (src/twitter_bot/api_usage_tracker.py); and RateLimitOptimizer          *)
(* (src/twitter_bot/rate_limit_optimizer.py), whose clock counts minutes.  *)
(***************************************************************************)
EXTENDS Integers, Sequences, FiniteSets, TLC

VARIABLES data, file, disk, now, hashseed, marks, lastReply, lastRss,
          lastTheme, clsIn, clsOut,
          \* TwitterBotClient (src/bot/client.py)
          daily_post_count, daily_engagement_count, last_post_time, trace,
          \* EmailPipeline (src/email_pipeline/pipeline.py)
          email_data, emails_sent_today, sent,
          \* APIUsageTracker (src/twitter_bot/api_usage_tracker.py)
          usage_data, usage_file, permit,
          \* RateLimitOptimizer (src/twitter_bot/rate_limit_optimizer.py)
          endpoint_windows, global_backoff, lock, pc, clock, deadline

clientVars == <<daily_post_count, daily_engagement_count, last_post_time,
                trace>>
pipelineVars == <<email_data, emails_sent_today, sent>>
usageVars == <<usage_data, usage_file, permit>>
limiterVars == <<endpoint_windows, global_backoff, lock, pc, clock, deadline>>

vars == <<data, file, disk, now, hashseed, marks, lastReply, lastRss,
          lastTheme, clsIn, clsOut, clientVars, pipelineVars, usageVars,
          limiterVars>>

---------------------------------------------------------------------------
(* Characters and strings                                                  *)

LowerLetters == <<"a","b","c","d","e","f","g","h","i","j","k","l","m",
                  "n","o","p","q","r","s","t","u","v","w","x","y","z">>
UpperLetters == <<"A","B","C","D","E","F","G","H","I","J","K","L","M",
                  "N","O","P","Q","R","S","T","U","V","W","X","Y","Z">>
Digits == {"0","1","2","3","4","5","6","7","8","9"}

Range(f) == {f[i] : i \in DOMAIN f}

IsAsciiLetter(c) == c \in Range(LowerLetters) \cup Range(UpperLetters)

\* [a-zA-Z0-9_], and \w on the characters of the model's alphabet
IsWordChar(c) == IsAsciiLetter(c) \/ c \in Digits \/ c = "_"

\* \s on the characters of the model's alphabet
IsSpace(c) == c = " "

\* str.lower(), one character
LowerChar(c) ==
    IF c \in Range(UpperLetters)
    THEN LowerLetters[CHOOSE i \in DOMAIN UpperLetters : UpperLetters[i] = c]
    ELSE c

\* str.lower()
Lower(s) == [i \in DOMAIN s |-> LowerChar(s[i])]

\* k in s, for two strings
IsSubstring(k, s) ==
    \E i \in 1..(Len(s) - Len(k) + 1) : SubSeq(s, i, i + Len(k) - 1) = k

\* does s continue with the literal p at position i
StartsAt(s, i, p) ==
    /\ i + Len(p) - 1 <= Len(s)
    /\ SubSeq(s, i, i + Len(p) - 1) = p

---------------------------------------------------------------------------
(* The classifier                                                          *)

news_content_types ==
    { <<"n","e","w","s">>,
      <<"a","n","n","o","u","n","c","e","m","e","n","t">>,
      <<"b","r","e","a","k","i","n","g">>,
      <<"f","u","n","d","i","n","g">>,
      <<"l","a","u","n","c","h">>,
      <<"a","c","q","u","i","s","i","t","i","o","n">>,
      <<"m","e","r","g","e","r">>,
      <<"e","a","r","n","i","n","g","s">>,
      <<"i","p","o">> }

similarity_content_types ==
    { <<"p","e","r","s","o","n","a","l","_","g","r","o","w","t","h">>,
      <<"a","d","v","i","c","e">>,
      <<"o","b","s","e","r","v","a","t","i","o","n">>,
      <<"i","n","s","i","g","h","t">>,
      <<"o","p","i","n","i","o","n">>,
      <<"e","x","p","e","r","i","e","n","c","e">>,
      <<"l","e","s","s","o","n">>,
      <<"f","r","a","m","e","w","o","r","k">> }

\* the classifier with the two keyword loops in the other order
ClassifyPersonalFirst(content, context) ==
    LET content_lower == Lower(content \o <<" ">> \o context)
    IN  IF \E personal_type \in similarity_content_types :
               IsSubstring(personal_type, content_lower)
        THEN "personal"
        ELSE IF \E news_type \in news_content_types :
                    IsSubstring(news_type, content_lower)
             THEN "news"
             ELSE "personal"

\* the classifier without the final default
ClassifyNoDefault(content, context) ==
    LET content_lower == Lower(content \o <<" ">> \o context)
    IN  IF \E news_type \in news_content_types :
               IsSubstring(news_type, content_lower)
        THEN "news"
        ELSE IF \E personal_type \in similarity_content_types :
                    IsSubstring(personal_type, content_lower)
             THEN "personal"
             ELSE "unknown"

_classify_content_type(content, context) ==
    LET content_lower == Lower(content \o <<" ">> \o context)
    IN  IF \E news_type \in news_content_types :
               IsSubstring(news_type, content_lower)
        THEN "news"
        ELSE IF \E personal_type \in similarity_content_types :
                    IsSubstring(personal_type, content_lower)
             THEN "personal"
             ELSE "personal"

---------------------------------------------------------------------------
(* _preprocess_content: the five re.sub calls, strip() and lower()         *)

\* the punctuation of  [$-_@.&+] | [!*\\(\\),]  (letters and digits apart)
UrlPunct == {"$","%","&","'","(",")","*","+",",","-",".","/",":",";","<",
             "=",">","?","@","[","\\","]","^","_","!"}

IsUrlChar(c) == IsAsciiLetter(c) \/ c \in Digits \/ c \in UrlPunct

\* the character classes the regular expressions use
InClass(cls, c) ==
    CASE cls = "url"   -> IsUrlChar(c)
      [] cls = "word"  -> IsWordChar(c)
      [] cls = "space" -> IsSpace(c)

RECURSIVE RunEnd(_, _, _)
\* the index after the longest run of characters of class cls starting at i
RunEnd(s, i, cls) ==
    IF i <= Len(s) /\ InClass(cls, s[i]) THEN RunEnd(s, i + 1, cls) ELSE i

RECURSIVE SubUrl(_, _)
\* re.sub(r'http[s]?://(?:...)+', '', s), from position i on
SubUrl(s, i) ==
    IF i > Len(s) THEN <<>>
    ELSE LET j == IF StartsAt(s, i, <<"h","t","t","p","s",":","/","/">>)
                  THEN i + 8
                  ELSE IF StartsAt(s, i, <<"h","t","t","p",":","/","/">>)
                       THEN i + 7
                       ELSE 0
             e == IF j = 0 THEN 0 ELSE RunEnd(s, j, "url")
         IN  IF j # 0 /\ e > j
             THEN SubUrl(s, e)
             ELSE <<s[i]>> \o SubUrl(s, i + 1)

RECURSIVE SubTag(_, _, _)
\* re.sub(mark + r'[a-zA-Z0-9_]+', '', s), from position i on
SubTag(s, i, mark) ==
    IF i > Len(s) THEN <<>>
    ELSE LET e == IF s[i] = mark THEN RunEnd(s, i + 1, "word") ELSE 0
         IN  IF e > i + 1
             THEN SubTag(s, e, mark)
             ELSE <<s[i]>> \o SubTag(s, i + 1, mark)

RECURSIVE SubSpaces(_, _)
\* re.sub(r'\s+', ' ', s), from position i on
SubSpaces(s, i) ==
    IF i > Len(s) THEN <<>>
    ELSE IF IsSpace(s[i])
         THEN <<" ">> \o SubSpaces(s, RunEnd(s, i, "space"))
         ELSE <<s[i]>> \o SubSpaces(s, i + 1)

\* re.sub(r'[^\w\s]', ' ', s)
SubNonWord(s) ==
    [i \in DOMAIN s |-> IF IsWordChar(s[i]) \/ IsSpace(s[i]) THEN s[i] ELSE " "]

RECURSIVE LStrip(_)
LStrip(s) == IF s # <<>> /\ IsSpace(Head(s)) THEN LStrip(Tail(s)) ELSE s

RECURSIVE RStrip(_)
RStrip(s) ==
    IF s # <<>> /\ IsSpace(s[Len(s)]) THEN RStrip(SubSeq(s, 1, Len(s) - 1)) ELSE s

\* str.strip()
Strip(s) == RStrip(LStrip(s))

_preprocess_content(content) ==
    LET c1 == SubUrl(content, 1)
        c2 == SubTag(c1, 1, "@")
        c3 == SubTag(c2, 1, "#")
        c4 == SubSpaces(c3, 1)
        c5 == SubNonWord(c4)
    IN  Lower(Strip(c5))

---------------------------------------------------------------------------
(* TfidfVectorizer(max_features=1000, stop_words='english',                *)
(*                 ngram_range=(1, 2), lowercase=True)                     *)

max_features == 1000

\* the words of sklearn's English stop word list among the words the
\* model's texts are made of
StopWords ==
    { <<"i","t">>, <<"i","s">>, <<"w","h","a","t">>, <<"t","h","e">>,
      <<"a","n","d">>, <<"o","f">>, <<"s","e","e">> }

RECURSIVE Tokens(_, _)
\* token_pattern r"(?u)\b\w\w+\b": the runs of two or more word characters
Tokens(s, i) ==
    IF i > Len(s) THEN <<>>
    ELSE IF IsWordChar(s[i])
         THEN LET e == RunEnd(s, i, "word")
              IN  IF e - i >= 2
                  THEN <<SubSeq(s, i, e - 1)>> \o Tokens(s, e)
                  ELSE Tokens(s, e)
         ELSE Tokens(s, i + 1)

\* the analyzer: lowercase, tokenize, drop stop words, then the unigrams
\* followed by the bigrams of what is left; a term is a sequence of tokens
Analyze(doc) ==
    LET toks  == Tokens(Lower(doc), 1)
        kept  == SelectSeq(toks, LAMBDA w : w \notin StopWords)
        uni   == [i \in 1..Len(kept) |-> <<kept[i]>>]
        bi    == [i \in 1..(Len(kept) - 1) |-> <<kept[i], kept[i + 1]>>]
    IN  uni \o bi

\* the number of times term occurs among the terms of a document
TermCount(terms, term) == Cardinality({i \in DOMAIN terms : terms[i] = term})

\* 10^4 * ln(k), k = 1..8
LnE4 == <<0, 6931, 10986, 13863, 16094, 17918, 19459, 20794>>

\* 100 * idf, idf = ln((1 + n) / (1 + df)) + 1  (smooth_idf), to the
\* nearest hundredth
Idf100(n, df) == (LnE4[1 + n] - LnE4[1 + df] + 10000 + 50) \div 100

RECURSIVE SetSum(_)
\* the sum of the second components of a set of pairs
SetSum(P) ==
    IF P = {} THEN 0
    ELSE LET x == CHOOSE x \in P : TRUE IN x[2] + SetSum(P \ {x})

RECURSIVE IsqrtIn(_, _, _)
IsqrtIn(n, lo, hi) ==
    IF lo >= hi THEN lo
    ELSE LET mid == (lo + hi + 1) \div 2
         IN  IF mid * mid <= n THEN IsqrtIn(n, mid, hi)
                               ELSE IsqrtIn(n, lo, mid - 1)

\* floor(sqrt(n))
Isqrt(n) == IsqrtIn(n, 0, IF n < 46340 THEN n ELSE 46340)

\* _limit_features: the max_features terms of highest total count
LimitFeatures(vocab, docs) ==
    IF Cardinality(vocab) <= max_features THEN vocab
    ELSE LET tfs(t) == SetSum({<<i, TermCount(docs[i], t)>> : i \in DOMAIN docs})
         IN  CHOOSE S \in SUBSET vocab :
                 /\ Cardinality(S) = max_features
                 /\ \A a \in S, b \in vocab \ S : tfs(a) >= tfs(b)

\* fit_transform: the fitted vocabulary of a corpus of analyzed documents
Vocabulary(docs) ==
    LimitFeatures(UNION {Range(docs[i]) : i \in DOMAIN docs}, docs)

\* fit_transform: the tf-idf weight (times 100) of a term in document i
Weight(docs, i, term) ==
    LET n  == Len(docs)
        df == Cardinality({j \in DOMAIN docs : term \in Range(docs[j])})
    IN  TermCount(docs[i], term) * Idf100(n, df)

\* cosine_similarity of documents i and j of the corpus, in thousandths
CosineMilli(docs, vocab, i, j) ==
    LET dot == SetSum({<<t, Weight(docs, i, t) * Weight(docs, j, t)>> : t \in vocab})
        ni  == SetSum({<<t, Weight(docs, i, t) * Weight(docs, i, t)>> : t \in vocab})
        nj  == SetSum({<<t, Weight(docs, j, t) * Weight(docs, j, t)>> : t \in vocab})
    IN  IF ni = 0 \/ nj = 0 THEN 0
        ELSE (dot * 1000) \div (Isqrt(ni) * Isqrt(nj))

RECURSIVE SeqMax(_)
SeqMax(q) ==
    IF q = <<>> THEN 0
    ELSE LET m == SeqMax(Tail(q)) IN IF Head(q) > m THEN Head(q) ELSE m

\* the similarity with a failed vectorization counted as a full match
SimilarityEmptyIsMatch(new_content, existing_contents) ==
    IF existing_contents = <<>> THEN 0
    ELSE LET all_content == <<_preprocess_content(new_content)>> \o
                            [i \in DOMAIN existing_contents |->
                                _preprocess_content(existing_contents[i])]
             docs  == [i \in DOMAIN all_content |-> Analyze(all_content[i])]
             vocab == Vocabulary(docs)
         IN  IF vocab = {} THEN 1000
             ELSE SeqMax([j \in 1..Len(existing_contents) |->
                             CosineMilli(docs, vocab, 1, j + 1)])

\* the maximum cosine similarity, in thousandths (the floor of the square
\* roots lets a full match come out a little above 1000); 0.0 when the
\* vectorizer raises ValueError on an empty vocabulary
_calculate_similarity(new_content, existing_contents) ==
    IF existing_contents = <<>> THEN 0
    ELSE LET new_content_clean == _preprocess_content(new_content)
             existing_contents_clean ==
                 [i \in DOMAIN existing_contents |->
                     _preprocess_content(existing_contents[i])]
             all_content == <<new_content_clean>> \o existing_contents_clean
             docs  == [i \in DOMAIN all_content |-> Analyze(all_content[i])]
             vocab == Vocabulary(docs)
         IN  IF vocab = {} THEN 0
             ELSE SeqMax([j \in 1..Len(existing_contents) |->
                             CosineMilli(docs, vocab, 1, j + 1)])

\* similarity_threshold = 0.15, in thousandths
similarity_threshold == 150

---------------------------------------------------------------------------
(* The inputs of the model                                                 *)

\* "A lesson learned"
TextLesson == <<"A"," ","l","e","s","s","o","n"," ",
                "l","e","a","r","n","e","d">>
\* "It is what it is."
TextStop == <<"I","t"," ","i","s"," ","w","h","a","t"," ","i","t"," ",
              "i","s",".">>
\* "Launch lesson"
TextNews == <<"L","a","u","n","c","h"," ","l","e","s","s","o","n">>
\* "Lesson learned: @bob http://t.co/x1 #ai"
TextTags == <<"L","e","s","s","o","n"," ","l","e","a","r","n","e","d",":",
              " ","@","b","o","b"," ","h","t","t","p",":","/","/","t",".",
              "c","o","/","x","1"," ","#","a","i">>
\* "cats sleep"
TextCats == <<"c","a","t","s"," ","s","l","e","e","p">>

\* "@bob #ai"
TextMention == <<"@","b","o","b"," ","#","a","i">>

Texts == {TextLesson, TextStop, TextNews, TextTags, TextCats, TextMention}

\* "" and "funding round"
NoContext == <<>>
FundingContext == <<"f","u","n","d","i","n","g"," ","r","o","u","n","d">>
Contexts == {NoContext, FundingContext}

\* the inputs of the classifier on its own
\* "Newsletter", "IPO", "ip", "My OPINION", "o"
TextNewsletter == <<"N","e","w","s","l","e","t","t","e","r">>
TextIpo == <<"I","P","O">>
TextIp == <<"i","p">>
TextOpinion == <<"M","y"," ","O","P","I","N","I","O","N">>
TextO == <<"o">>

ClassifyContents ==
    Texts \cup {TextNewsletter, TextIpo, TextIp, TextOpinion, <<>>}
ClassifyContexts == Contexts \cup {TextOpinion, TextO}

\* the texts the mark operations record
MarkTexts == {TextLesson, TextStop, TextNews}

\* the (content, context) arguments of mark_content_posted, of
\* mark_email_content_generated and of the two duplicate checks
PostedInputs == {<<TextLesson, NoContext>>, <<TextStop, NoContext>>,
                 <<TextNews, NoContext>>}
EmailInputs == {<<TextLesson, NoContext>>, <<TextStop, NoContext>>,
                <<TextNews, NoContext>>}
CheckInputs == {<<TextTags, NoContext>>, <<TextCats, FundingContext>>}

\* the caller's free-form content_type tag
ContentTypes == {"tweet"}

TweetIds == {"t1", "t2"}
ReplyIds == {"r1"}

\* RSS posts: (username, content)
\* "alice", "bob"
Alice == <<"a","l","i","c","e">>
Bob == <<"b","o","b">>
Usernames == {Alice, Bob}
RssPosts == {<<Alice, TextLesson>>, <<Bob, TextLesson>>}

Themes == {"ai"}
\* timeframe_hours arguments
Timeframes == {1, 6, 24}

\* the hash keys a process can draw at start-up
Seeds == {1, 2}

\* the instants (in hours) the clock visits
Instants == {0, 1, 7, 169, 721}

\* the number of mark_* calls of a run
MaxMarks == 2

---------------------------------------------------------------------------
(* The store                                                               *)

\* a dict is a set of <<key, value>> pairs with distinct keys
Keys(m) == {p[1] : p \in m}
Get(m, k) == (CHOOSE p \in m : p[1] = k)[2]
Put(m, k, v) == {p \in m : p[1] # k} \cup {<<k, v>>}

\* datetime.isoformat() / datetime.fromisoformat()
isoformat(t) == [iso |-> t]
IsIsoString(v) == DOMAIN v = {"iso"}
fromisoformat(v) == v.iso

\* timedelta(days=...) and timedelta(hours=...), in hours
retention_periods ==
    [replied_tweets |-> 30 * 24,
     used_rss_posts |-> 7 * 24,
     email_content  |-> 14 * 24,
     posted_content |-> 30 * 24,
     content_themes |-> 6]

EmptyStore ==
    [replied_tweets |-> {},
     used_rss_posts |-> {},
     email_content  |-> <<>>,
     posted_content |-> <<>>,
     content_themes |-> {}]

\* tracker_file: absent, or holding a JSON document, or existing without
\* being readable (open raises), or holding text that is not JSON
\* (json.load raises)
Absent == [exists |-> FALSE]
Unreadable == [exists |-> TRUE, error |-> "PermissionError"]
NotJson == [exists |-> TRUE, error |-> "JSONDecodeError"]

\* json.dump(self.data, f): the document written to tracker_file
json_dump(d) == [exists |-> TRUE, json |-> d]

\* a save that leaves the themes out of the document
SaveWithoutThemes(f, d, dsk) ==
    IF dsk = "ok"
    THEN {json_dump([key \in DOMAIN d \ {"content_themes"} |-> d[key]])}
    ELSE {f, NotJson}

\* _save_tracker_data: the files tracker_file can be afterwards. When the
\* write fails the exception is caught and logged; the file is as it was
\* (open failed) or truncated (json.dump failed part-way)
_save_tracker_data(f, d, dsk) ==
    IF dsk = "ok" THEN {json_dump(d)} ELSE {f, NotJson}

\* a load that starts a tracker without a file on a store with a record
\* in each list
LoadSeeded(f) ==
    LET seed == [content       |-> <<"A"," ","l","e","s","s","o","n"," ",
                                     "l","e","a","r","n","e","d">>,
                 content_type  |-> "personal",
                 original_type |-> "tweet",
                 context       |-> <<>>,
                 timestamp     |-> isoformat(0)]
    IN  IF f.exists THEN f.json
        ELSE [EmptyStore EXCEPT !.posted_content = <<seed>>,
                                !.email_content = <<seed>>]

\* a load that lets the exception of open or json.load through
LoadRaises(f) ==
    IF ~f.exists THEN EmptyStore
    ELSE IF "json" \in DOMAIN f THEN f.json
         ELSE [raised |-> f.error]

\* _load_tracker_data: json.load of the file when it exists, the five
\* empty collections when it does not exist or when open or json.load
\* raises
_load_tracker_data(f) ==
    IF ~f.exists THEN EmptyStore
    ELSE IF "json" \in DOMAIN f THEN f.json
         ELSE EmptyStore

\* item.get('timestamp', '2025-01-01T00:00:00'); 2025-01-01 is not later
\* than the instant 0 of the model's clock
ItemTimestamp(item) ==
    IF "timestamp" \in DOMAIN item THEN item.timestamp ELSE isoformat(0)

\* the list filter of _clean_old_entries with > for >=
CleanListStrict(items, cutoff_time) ==
    SelectSeq(items,
              LAMBDA item : fromisoformat(ItemTimestamp(item)) > cutoff_time)

\* the list branch of _clean_old_entries
CleanList(items, cutoff_time) ==
    SelectSeq(items,
              LAMBDA item : fromisoformat(ItemTimestamp(item)) >= cutoff_time)

\* the dict branch of _clean_old_entries without the age test
CleanDictKeepsOld(m, cutoff_time) == {p \in m : IsIsoString(p[2])}

\* the dict branch of _clean_old_entries: a key goes when its value is
\* older than the cutoff or fromisoformat raises ValueError / TypeError
CleanDict(m, cutoff_time) ==
    {p \in m : IsIsoString(p[2]) /\ ~(fromisoformat(p[2]) < cutoff_time)}

\* the order in which _clean_old_entries visits the collections
PruneOrder == <<"replied_tweets", "used_rss_posts", "email_content",
                "posted_content", "content_themes">>

\* the list filter raises ValueError (not caught) on a record whose
\* timestamp fromisoformat cannot parse
ListRaises(items) ==
    \E i \in DOMAIN items : ~IsIsoString(ItemTimestamp(items[i]))

\* the position in PruneOrder at which the pass raises, 0 when it completes
RaisesAt(d) ==
    LET bad == {k \in DOMAIN PruneOrder :
                   /\ PruneOrder[k] \in {"email_content", "posted_content"}
                   /\ PruneOrder[k] \in DOMAIN d
                   /\ ListRaises(d[PruneOrder[k]])}
    IN  IF bad = {} THEN 0 ELSE CHOOSE k \in bad : \A other \in bad : k <= other

\* the store after the pass: the collections visited before the pass
\* raised (all of them when it completes) are pruned
_clean_old_entries(d, t) ==
    LET stop == RaisesAt(d)
        visited(content_type) ==
            \/ stop = 0
            \/ \E k \in DOMAIN PruneOrder :
                   PruneOrder[k] = content_type /\ k < stop
    IN  [content_type \in DOMAIN d |->
            IF content_type \in DOMAIN retention_periods /\ visited(content_type)
            THEN LET cutoff_time == t - retention_periods[content_type]
                 IN  IF content_type \in {"email_content", "posted_content"}
                     THEN CleanList(d[content_type], cutoff_time)
                     ELSE CleanDict(d[content_type], cutoff_time)
            ELSE d[content_type]]

---------------------------------------------------------------------------
(* The values the operations return                                        *)

\* hash(content) % 10000000
HashBuckets == 10000000

\* the code point of a letter, 0 for any other character
Ord(c) ==
    IF c \in Range(LowerLetters)
    THEN 96 + (CHOOSE i \in DOMAIN LowerLetters : LowerLetters[i] = c)
    ELSE IF c \in Range(UpperLetters)
         THEN 64 + (CHOOSE i \in DOMAIN UpperLetters : UpperLetters[i] = c)
         ELSE 0

RECURSIVE KeyedHash(_, _)
\* hash(str): CPython keys its str hash with a key drawn at process
\* start-up (PYTHONHASHSEED is not set anywhere in the repository); the
\* keyed hash is a polynomial in the code points, started from the key
KeyedHash(seed, s) ==
    IF s = <<>> THEN seed
    ELSE (KeyedHash(seed, SubSeq(s, 1, Len(s) - 1)) * 31 + Ord(s[Len(s)]) + seed)
             % HashBuckets

\* the hashes of the contents of the model's RSS posts, computed once
HashOf ==
    [q \in Seeds \X {post[2] : post \in RssPosts} |->
        KeyedHash(q[1], q[2])] @@ <<>>

\* hash(content), in the process whose key is seed
hash(seed, s) == HashOf[<<seed, s>>]

DigitChars == <<"0","1","2","3","4","5","6","7","8","9">>

RECURSIVE Decimal(_)
\* str(n) for an int n >= 0
Decimal(n) ==
    IF n < 10 THEN <<DigitChars[n + 1]>>
    ELSE Decimal(n \div 10) \o <<DigitChars[(n % 10) + 1]>>

\* a fingerprint made of the hash alone
ContentHashNoUser(seed, username, content) ==
    Decimal(hash(seed, content) % HashBuckets)

\* f"{username}:{hash(content) % 10000000}"
content_hash(seed, username, content) ==
    username \o <<":">> \o Decimal(hash(seed, content) % HashBuckets)

---------------------------------------------------------------------------
(* EmailPipeline: the post suggestions, the text str(post_suggestions)     *)
(* that the duplicate check is given and the digest that is recorded       *)

\* a post suggestion: of the keys of the dict the model keeps content
\* alone, so post.get('viral_score', '') and post.get('pillar', '') are ''
Suggestion(content) == [content |-> content]

\* the lists of post suggestions a run of the pipeline can come to
SuggestionLists == {<<Suggestion(TextLesson)>>, <<Suggestion(TextCats)>>}

\* repr of a str (the model's texts hold no quote and no backslash)
ReprStr(text) == <<"'">> \o text \o <<"'">>

\* repr of the dict of a suggestion
ReprSuggestion(post) ==
    <<"{","'","c","o","n","t","e","n","t","'",":"," ">>
        \o ReprStr(post.content) \o <<"}">>

RECURSIVE Join(_, _)
\* sep.join(parts)
Join(sep, parts) ==
    IF parts = <<>> THEN <<>>
    ELSE IF Len(parts) = 1 THEN parts[1]
         ELSE parts[1] \o sep \o Join(sep, Tail(parts))

\* str(post_suggestions): repr of the list
StrOfList(post_suggestions) ==
    <<"[">> \o Join(<<",", " ">>,
                    [i \in DOMAIN post_suggestions |->
                        ReprSuggestion(post_suggestions[i])])
           \o <<"]">>

\* datetime.now().strftime('%Y-%m-%d-%H'): a text for each hour; the
\* model writes the number of the hour
HourStamp(t) == Decimal(t)

\* the code of a character of a text to be hashed
CodeOf(c) ==
    IF \E i \in DOMAIN DigitChars : DigitChars[i] = c
    THEN 47 + (CHOOSE i \in DOMAIN DigitChars : DigitChars[i] = c)
    ELSE Ord(c)

HexChars == DigitChars \o <<"a","b","c","d","e","f">>

RECURSIVE Mix(_, _, _)
\* one 16-bit word of the digest
Mix(word, s, h) ==
    IF s = <<>> THEN h
    ELSE Mix(word, Tail(s), (h * (31 + 2 * word) + CodeOf(Head(s)) + word) % 65536)

Hex4(n) ==
    <<HexChars[(n \div 4096) + 1], HexChars[((n \div 256) % 16) + 1],
      HexChars[((n \div 16) % 16) + 1], HexChars[(n % 16) + 1]>>

\* hashlib.md5(text.encode()).hexdigest()[:16]: sixteen characters of
\* 0-9a-f determined by the text. MD5 itself is not computed: the model
\* mixes the text into four 16-bit words and writes them in hexadecimal
HexDigest16(text) ==
    Hex4(Mix(1, text, 1)) \o Hex4(Mix(2, text, 2))
        \o Hex4(Mix(3, text, 3)) \o Hex4(Mix(4, text, 4))

\* _generate_email_content_hash of the suggestions (at most three) at the
\* hour t, with no engagement opportunities
EmailContentHash(post_suggestions, t) ==
    LET posts == SubSeq(post_suggestions, 1,
                        IF Len(post_suggestions) < 3
                        THEN Len(post_suggestions) ELSE 3)
        content_elements ==
            [i \in 1..(3 * Len(posts)) |->
                IF i % 3 = 1 THEN posts[((i - 1) \div 3) + 1].content ELSE <<>>]
                \o <<HourStamp(t)>>
        combined_content == Join(<<" ", "|", " ">>, content_elements)
    IN  HexDigest16(Lower(combined_content))

\* the hours at which the pipeline and the client run side by side: a
\* first run, one past the six hours of a theme and one past the 14 days
\* of an email record
SharedInstants == {0, 7, 343}

\* the digests, computed once
DigestOf ==
    [q \in SuggestionLists \X SharedInstants |->
        EmailContentHash(q[1], q[2])] @@ <<>>
_generate_email_content_hash(post_suggestions, t) ==
    DigestOf[<<post_suggestions, t>>]

\* the texts the pipeline hands to the tracker
SuggestionTexts == {StrOfList(q) : q \in SuggestionLists}
Digests == {DigestOf[q] : q \in DOMAIN DigestOf}
DigestCorpora == UNION {[1..k -> Digests] : k \in 0..((MaxMarks + 2) \div 2)}

\* the similarities and classifications the operations can ask for; the
\* trailing @@ <<>> has each table evaluated once, as an explicit function
Corpora == UNION {[1..k -> MarkTexts] : k \in 0..MaxMarks}
SimilarityTable ==
    [q \in Texts \X Corpora |-> _calculate_similarity(q[1], q[2])] @@ <<>>
EmailSimilarityTable ==
    [q \in SuggestionTexts \X DigestCorpora |->
        _calculate_similarity(q[1], q[2])] @@ <<>>
ClassTable ==
    [q \in (ClassifyContents \X ClassifyContexts)
              \cup ((SuggestionTexts \cup Digests) \X {NoContext}) |->
        _classify_content_type(q[1], q[2])] @@ <<>>

Contents(items) == [i \in DOMAIN items |-> items[i].content]

\* the duplicate check without the News bypass
SimilarNoNewsBypass(d, t, collection, content, context) ==
    LET cleaned == _clean_old_entries(d, t)
        existing_contents == Contents(cleaned[collection])
    IN  IF existing_contents = <<>> THEN FALSE
        ELSE SimilarityTable[<<content, existing_contents>>] > similarity_threshold

\* the duplicate check comparing with the texts of both lists
SimilarAcrossCollections(d, t, collection, content, context) ==
    LET cleaned == _clean_old_entries(d, t)
        classified_type == ClassTable[<<content, context>>]
        existing_contents == Contents(cleaned.posted_content)
                                 \o Contents(cleaned.email_content)
    IN  IF classified_type = "news" THEN FALSE
        ELSE IF existing_contents = <<>> THEN FALSE
             ELSE _calculate_similarity(content, existing_contents)
                      > similarity_threshold

\* has_posted_similar_content (collection posted_content) and
\* has_generated_similar_email (collection email_content)
HasSimilar(d, t, collection, content, context) ==
    LET cleaned == _clean_old_entries(d, t)
        classified_type == ClassTable[<<content, context>>]
        existing_contents == Contents(cleaned[collection])
    IN  IF classified_type = "news" THEN FALSE
        ELSE IF existing_contents = <<>> THEN FALSE
             ELSE (IF content \in SuggestionTexts
                   THEN EmailSimilarityTable[<<content, existing_contents>>]
                   ELSE SimilarityTable[<<content, existing_contents>>])
                      > similarity_threshold

\* the check on posted content reading the email collection
HasPostedReadsEmail(d, t, content, context) ==
    HasSimilar(d, t, "email_content", content, context)

has_posted_similar_content_returns(d, t, content, context) ==
    HasSimilar(d, t, "posted_content", content, context)

has_generated_similar_email_returns(d, t, content, context) ==
    HasSimilar(d, t, "email_content", content, context)

has_replied_to_tweet_returns(d, tweet_id) ==
    IF "replied_tweets" \notin DOMAIN d THEN FALSE
    ELSE tweet_id \in Keys(d.replied_tweets)

has_used_rss_post_returns(d, t, seed, username, content) ==
    LET cleaned == _clean_old_entries(d, t)
    IN  content_hash(seed, username, content) \in Keys(cleaned.used_rss_posts)

\* the theme check with <= for <
ThemeRecentlyInclusive(d, t, theme, timeframe_hours) ==
    LET cleaned == _clean_old_entries(d, t)
    IN  IF theme \in Keys(cleaned.content_themes)
        THEN t - fromisoformat(Get(cleaned.content_themes, theme))
                 <= timeframe_hours
        ELSE FALSE

has_used_theme_recently_returns(d, t, theme, timeframe_hours) ==
    LET cleaned == _clean_old_entries(d, t)
    IN  IF theme \in Keys(cleaned.content_themes)
        THEN LET theme_time == fromisoformat(Get(cleaned.content_themes, theme))
                 time_diff  == t - theme_time
             IN  time_diff < timeframe_hours
        ELSE FALSE

get_statistics_returns(d, t) ==
    LET cleaned == _clean_old_entries(d, t)
    IN  [replied_tweets |-> Cardinality(cleaned.replied_tweets),
         used_rss_posts |-> Cardinality(cleaned.used_rss_posts),
         email_content  |-> Len(cleaned.email_content),
         posted_content |-> Len(cleaned.posted_content),
         content_themes |-> Cardinality(cleaned.content_themes),
         similarity_threshold |-> similarity_threshold]

\* the operations callers use
PublicOperations ==
    {"has_posted_similar_content", "has_generated_similar_email",
     "has_replied_to_tweet", "has_used_rss_post", "has_used_theme_recently",
     "get_statistics", "mark_content_posted", "mark_email_content_generated",
     "mark_tweet_replied", "mark_rss_post_used", "mark_theme_used"}

\* the operation, called on the store d (the two duplicate checks with a
\* Personal text), raises to its caller: the prune pass raises ValueError,
\* or self.data[...] raises KeyError on a key the store does not have
Raises(d, operation) ==
    LET CleanRaises == RaisesAt(d) # 0
        missing(key) == key \notin DOMAIN d
    IN  CASE operation = "has_posted_similar_content" ->
                 CleanRaises \/ missing("posted_content")
          [] operation = "has_generated_similar_email" ->
                 CleanRaises \/ missing("email_content")
          [] operation = "has_used_rss_post" ->
                 CleanRaises \/ missing("used_rss_posts")
          [] operation = "has_used_theme_recently" ->
                 CleanRaises \/ missing("content_themes")
          [] operation = "get_statistics" ->
                 CleanRaises \/ \E key \in DOMAIN EmptyStore : missing(key)
          [] operation = "mark_content_posted" -> missing("posted_content")
          [] operation = "mark_email_content_generated" ->
                 missing("email_content")
          [] operation = "mark_rss_post_used" -> missing("used_rss_posts")
          [] operation = "mark_theme_used" -> missing("content_themes")
          [] operation \in {"has_replied_to_tweet", "mark_tweet_replied"} ->
                 FALSE

---------------------------------------------------------------------------
(* The calendar, APIUsageTracker's store and RateLimitOptimizer's lock     *)

\* None, and Some(x) for an Optional that holds x
None == {}
Some(x) == {x}
IsNone(o) == o = {}
TheValue(o) == CHOOSE x \in o : TRUE

\* the instant 0 is 2025-01-01T00:00 (see ItemTimestamp); January has 31
\* days, February 28
DaysInJanuary == 31
DaysInFebruary == 28

\* datetime.now().strftime("%Y-%m-%d"): the day, counted from 2025-01-01
Today(t) == t \div 24

\* datetime.now().strftime("%Y-%m"): the month of 2025, from 1
Month(t) ==
    IF Today(t) < DaysInJanuary THEN 1
    ELSE IF Today(t) < DaysInJanuary + DaysInFebruary THEN 2
         ELSE 3

\* _load_usage_data: json.load of usage_file when it exists, else the new
\* usage data (rate_limit_reset_times, which nothing reads or writes, is
\* left out)
_load_usage_data(f, t) ==
    IF f.exists /\ "json" \in DOMAIN f THEN f.json
    ELSE [current_month      |-> Month(t),
          posts_this_month   |-> 0,
          reads_this_month   |-> 0,
          daily_posts        |-> {},
          daily_reads        |-> {},
          last_reset         |-> isoformat(t),
          consecutive_errors |-> 0]

\* threading.Lock(): not held, or held by a thread
Unlocked == "unlocked"
Threads == {"T1", "T2"}

\* where a thread is in the optimizer: in none of its methods; back from
\* can_make_request(endpoint) with the answer true and record_request not
\* yet called; in the loop of get_efficiency_stats, holding the lock, with
\* the endpoints in todo still to visit
Idle == [at |-> "idle"]
Permitted(endpoint) == [at |-> "permitted", endpoint |-> endpoint]
InStats(todo) == [at |-> "get_efficiency_stats", todo |-> todo]

---------------------------------------------------------------------------
(* The operations                                                          *)

\* lastReply, lastRss, lastTheme remember when each mark last happened
\* (lastRss also the key it stored); the program does not read them
NoMarkYet == {}

Init ==
    /\ file = Absent
    /\ disk = "ok"
    /\ data = _load_tracker_data(file)
    /\ now = 0
    /\ hashseed \in Seeds
    /\ marks = 0
    /\ lastReply = NoMarkYet
    /\ lastRss = NoMarkYet
    /\ lastTheme = NoMarkYet
    /\ clsIn = <<NoContext, NoContext>>
    /\ clsOut = "none"
    /\ daily_post_count = 0
    /\ daily_engagement_count = 0
    /\ last_post_time = None
    /\ trace = <<>>
    /\ email_data = _load_tracker_data(file)
    /\ emails_sent_today = 0
    /\ sent = {}
    /\ usage_file = Absent
    /\ usage_data = _load_usage_data(usage_file, now)
    /\ permit = FALSE
    /\ endpoint_windows = {}
    /\ global_backoff = 0
    /\ lock = Unlocked
    /\ pc = [thread \in Threads |-> Idle]
    /\ clock = 0
    /\ deadline = [latest |-> 0, last |-> 0]

UnchangedClassifier == UNCHANGED <<clsIn, clsOut>>

\* a tracker operation changes nothing of the classifier's caller, the
\* client, the pipeline, the usage tracker and the rate limiter
UnchangedElsewhere ==
    /\ UnchangedClassifier
    /\ UNCHANGED <<clientVars, pipelineVars, usageVars, limiterVars>>

\* a mark that inserts the record at the head of the list
MarkContentAtHead(collection, content, content_type, context) ==
    LET content_entry ==
            [content       |-> content,
             content_type  |-> ClassTable[<<content, context>>],
             original_type |-> content_type,
             context       |-> context,
             timestamp     |-> isoformat(now)]
    IN  /\ marks < MaxMarks
        /\ marks' = marks + 1
        /\ data' = [data EXCEPT ![collection] = <<content_entry>> \o @]
        /\ file' \in _save_tracker_data(file, data', disk)
        /\ UNCHANGED <<disk, now, hashseed, lastReply, lastRss, lastTheme>>
        /\ UnchangedElsewhere

\* a mark that loses the record when the write fails
MarkContentLostOnFailure(collection, content, content_type, context) ==
    LET content_entry ==
            [content       |-> content,
             content_type  |-> ClassTable[<<content, context>>],
             original_type |-> content_type,
             context       |-> context,
             timestamp     |-> isoformat(now)]
    IN  /\ marks < MaxMarks
        /\ marks' = marks + 1
        /\ collection \in DOMAIN data
        /\ data' = IF disk = "ok"
                   THEN [data EXCEPT ![collection] = Append(@, content_entry)]
                   ELSE data
        /\ file' \in _save_tracker_data(file, data', disk)
        /\ UNCHANGED <<disk, now, hashseed, lastReply, lastRss, lastTheme>>
        /\ UnchangedElsewhere

\* self.data[collection].append(content_entry); self._save_tracker_data().
\* self.data[collection] raises KeyError when the store has no such key:
\* nothing is appended and nothing is written
MarkContent(collection, content, content_type, context) ==
    LET classified_type == ClassTable[<<content, context>>]
        content_entry ==
            [content       |-> content,
             content_type  |-> classified_type,
             original_type |-> content_type,
             context       |-> context,
             timestamp     |-> isoformat(now)]
    IN  /\ marks < MaxMarks
        /\ marks' = marks + 1
        /\ IF collection \in DOMAIN data
           THEN /\ data' = [data EXCEPT ![collection] = Append(@, content_entry)]
                /\ file' \in _save_tracker_data(file, data', disk)
           ELSE UNCHANGED <<data, file>>
        /\ UNCHANGED <<disk, now, hashseed, lastReply, lastRss, lastTheme>>
        /\ UnchangedElsewhere

mark_content_posted(content, content_type, context) ==
    MarkContent("posted_content", content, content_type, context)

mark_email_content_generated(content, content_type, context) ==
    MarkContent("email_content", content, content_type, context)

mark_tweet_replied(tweet_id, reply_id) ==
    LET d0 == IF "replied_tweets" \notin DOMAIN data
              THEN [k \in DOMAIN data \cup {"replied_tweets"} |->
                       IF k = "replied_tweets" THEN {} ELSE data[k]]
              ELSE data
        entry == [reply_id |-> reply_id, timestamp |-> isoformat(now)]
    IN  /\ marks < MaxMarks
        /\ marks' = marks + 1
        /\ data' = [d0 EXCEPT !.replied_tweets = Put(@, tweet_id, entry)]
        /\ file' \in _save_tracker_data(file, data', disk)
        /\ lastReply' = Put(lastReply, tweet_id, now)
        /\ UNCHANGED <<disk, now, hashseed, lastRss, lastTheme>>
        /\ UnchangedElsewhere

\* self.data['used_rss_posts'][content_hash] = ... raises KeyError when
\* the store has no such key
mark_rss_post_used(username, content) ==
    LET key == content_hash(hashseed, username, content)
    IN  /\ marks < MaxMarks
        /\ marks' = marks + 1
        /\ IF "used_rss_posts" \in DOMAIN data
           THEN /\ data' = [data EXCEPT
                               !.used_rss_posts = Put(@, key, isoformat(now))]
                /\ file' \in _save_tracker_data(file, data', disk)
                /\ lastRss' = Put(lastRss, <<username, content>>,
                                  [at |-> now, key |-> key])
           ELSE UNCHANGED <<data, file, lastRss>>
        /\ UNCHANGED <<disk, now, hashseed, lastReply, lastTheme>>
        /\ UnchangedElsewhere

mark_theme_used(theme) ==
    /\ marks < MaxMarks
    /\ marks' = marks + 1
    /\ IF "content_themes" \in DOMAIN data
       THEN /\ data' = [data EXCEPT
                           !.content_themes = Put(@, theme, isoformat(now))]
            /\ file' \in _save_tracker_data(file, data', disk)
            /\ lastTheme' = Put(lastTheme, theme, now)
       ELSE UNCHANGED <<data, file, lastTheme>>
    /\ UNCHANGED <<disk, now, hashseed, lastReply, lastRss>>
    /\ UnchangedElsewhere

\* what a call that starts with self._clean_old_entries() does to the
\* store; nothing is written to the file
Prune ==
    /\ data' = _clean_old_entries(data, now)
    /\ UNCHANGED <<file, disk, now, hashseed, marks, lastReply, lastRss,
                   lastTheme>>
    /\ UnchangedElsewhere

has_posted_similar_content(content, content_type, context) == Prune

has_generated_similar_email(content, content_type, context) == Prune

has_replied_to_tweet(tweet_id) ==
    /\ data' = IF "replied_tweets" \notin DOMAIN data
               THEN [k \in DOMAIN data \cup {"replied_tweets"} |->
                        IF k = "replied_tweets" THEN {} ELSE data[k]]
               ELSE data
    /\ UNCHANGED <<file, disk, now, hashseed, marks, lastReply, lastRss,
                   lastTheme>>
    /\ UnchangedElsewhere

has_used_rss_post(username, content) == Prune

has_used_theme_recently(theme, timeframe_hours) == Prune

get_statistics == Prune

\* the process ends and a later run constructs ContentTracker() on the
\* same tracker_file, with the hash key of that run
Restart ==
    /\ data' = _load_tracker_data(file)
    /\ hashseed' \in Seeds
    /\ UNCHANGED <<file, disk, now, marks, lastReply, lastRss, lastTheme>>
    /\ UnchangedElsewhere

\* datetime.now() moves on
Tick ==
    /\ now' \in {t \in Instants : t > now}
    /\ UNCHANGED <<data, file, disk, hashseed, marks, lastReply, lastRss,
                   lastTheme>>
    /\ UnchangedElsewhere

Next ==
    \/ \E in \in PostedInputs, content_type \in ContentTypes :
          mark_content_posted(in[1], content_type, in[2])
    \/ \E in \in EmailInputs, content_type \in ContentTypes :
          mark_email_content_generated(in[1], content_type, in[2])
    \/ \E tweet_id \in TweetIds, reply_id \in ReplyIds :
          mark_tweet_replied(tweet_id, reply_id)
    \/ \E post \in RssPosts : mark_rss_post_used(post[1], post[2])
    \/ \E theme \in Themes : mark_theme_used(theme)
    \/ \E in \in CheckInputs, content_type \in ContentTypes :
          \/ has_posted_similar_content(in[1], content_type, in[2])
          \/ has_generated_similar_email(in[1], content_type, in[2])
    \/ \E tweet_id \in TweetIds : has_replied_to_tweet(tweet_id)
    \/ \E post \in RssPosts : has_used_rss_post(post[1], post[2])
    \/ \E theme \in Themes, timeframe_hours \in {6} :
          has_used_theme_recently(theme, timeframe_hours)
    \/ get_statistics
    \/ Restart
    \/ Tick

Spec == Init /\ [][Next]_vars

---------------------------------------------------------------------------
(* The classifier on its own: _classify_content_type called on drawn       *)
(* inputs, on stores that hold records                                     *)

Classify(content, context) ==
    /\ clsIn' = <<content, context>>
    /\ clsOut' = ClassTable[<<content, context>>]
    /\ UNCHANGED <<data, file, disk, now, hashseed, marks, lastReply, lastRss,
                   lastTheme>>
    /\ UNCHANGED <<clientVars, pipelineVars, usageVars, limiterVars>>

NextClassify ==
    \/ \E content \in ClassifyContents, context \in ClassifyContexts :
          Classify(content, context)
    \/ \E in \in PostedInputs, content_type \in ContentTypes :
          mark_content_posted(in[1], content_type, in[2])
    \/ \E tweet_id \in TweetIds, reply_id \in ReplyIds :
          mark_tweet_replied(tweet_id, reply_id)

SpecClassify == Init /\ [][NextClassify]_vars

---------------------------------------------------------------------------
(* The duplicate detector on its own: the operations that read or write    *)
(* posted_content and email_content                                        *)

NextSimilarity ==
    \/ \E in \in PostedInputs, content_type \in ContentTypes :
          mark_content_posted(in[1], content_type, in[2])
    \/ \E in \in EmailInputs, content_type \in ContentTypes :
          mark_email_content_generated(in[1], content_type, in[2])
    \/ \E in \in CheckInputs, content_type \in ContentTypes :
          \/ has_posted_similar_content(in[1], content_type, in[2])
          \/ has_generated_similar_email(in[1], content_type, in[2])
    \/ Restart
    \/ Tick

SpecSimilarity == Init /\ [][NextSimilarity]_vars

---------------------------------------------------------------------------
(* The tracker with a failing disk and a file that others damage, at one   *)
(* instant of the clock                                                    *)

\* documents that parse as JSON and are not a tracker store: one without
\* the key used_rss_posts, one whose posted record has a timestamp that
\* fromisoformat cannot parse
DocMissingKey ==
    [key \in DOMAIN EmptyStore \ {"used_rss_posts"} |-> EmptyStore[key]]
DocBadTimestamp ==
    [EmptyStore EXCEPT
        !.posted_content =
            <<[content       |-> TextLesson,
               content_type  |-> "personal",
               original_type |-> "tweet",
               context       |-> NoContext,
               timestamp     |-> [text |-> "yesterday"]]>>]

DamagedFiles ==
    {Absent, Unreadable, NotJson,
     json_dump(DocMissingKey), json_dump(DocBadTimestamp)}

\* writes to tracker_file start to fail (disk full, permissions) / work again
DiskFails ==
    /\ disk = "ok"
    /\ disk' = "failing"
    /\ UNCHANGED <<data, file, now, hashseed, marks, lastReply, lastRss,
                   lastTheme>>
    /\ UnchangedElsewhere

DiskRecovers ==
    /\ disk = "failing"
    /\ disk' = "ok"
    /\ UNCHANGED <<data, file, now, hashseed, marks, lastReply, lastRss,
                   lastTheme>>
    /\ UnchangedElsewhere

\* tracker_file is deleted, made unreadable, truncated or edited by hand
FileDamaged ==
    /\ file' \in DamagedFiles \ {file}
    /\ UNCHANGED <<data, disk, now, hashseed, marks, lastReply, lastRss,
                   lastTheme>>
    /\ UnchangedElsewhere

FaultInputs == {<<TextLesson, NoContext>>}

NextFaults ==
    \/ \E in \in FaultInputs, content_type \in ContentTypes :
          \/ mark_content_posted(in[1], content_type, in[2])
          \/ mark_email_content_generated(in[1], content_type, in[2])
    \/ \E reply_id \in ReplyIds : mark_tweet_replied("t1", reply_id)
    \/ mark_rss_post_used(Alice, TextLesson)
    \/ \E theme \in Themes : mark_theme_used(theme)
    \/ \E in \in FaultInputs, content_type \in ContentTypes :
          has_posted_similar_content(in[1], content_type, in[2])
    \/ has_replied_to_tweet("t1")
    \/ has_used_rss_post(Alice, TextLesson)
    \/ get_statistics
    \/ Restart
    \/ DiskFails
    \/ DiskRecovers
    \/ FileDamaged

SpecFaults == Init /\ [][NextFaults]_vars

---------------------------------------------------------------------------
(* APIUsageTracker: the write counters, asked before each write            *)

MONTHLY_WRITE_LIMIT == 500
DAILY_WRITE_LIMIT == 16

\* dict.get(key, default) on a dict kept as a set of pairs
GetOr(m, k, default) == IF k \in Keys(m) THEN Get(m, k) ELSE default

\* the usage data after _check_month_rollover at the instant t
_check_month_rollover(u, t) ==
    IF u.current_month # Month(t)
    THEN [u EXCEPT !.current_month = Month(t),
                   !.posts_this_month = 0,
                   !.reads_this_month = 0,
                   !.daily_posts = {},
                   !.daily_reads = {},
                   !.last_reset = isoformat(t),
                   !.consecutive_errors = 0]
    ELSE u

\* can_post with > for >= in the daily test
CanPostDailyOff(u, t) ==
    LET rolled == _check_month_rollover(u, t)
    IN  /\ MONTHLY_WRITE_LIMIT - rolled.posts_this_month > 0
        /\ ~(GetOr(rolled.daily_posts, Today(t), 0) > DAILY_WRITE_LIMIT)

\* what can_post returns
can_post_returns(u, t) ==
    LET rolled == _check_month_rollover(u, t)
        current_posts == rolled.posts_this_month
        remaining == MONTHLY_WRITE_LIMIT - current_posts
        daily_posts == GetOr(rolled.daily_posts, Today(t), 0)
    IN  IF remaining <= 0 THEN FALSE
        ELSE IF daily_posts >= DAILY_WRITE_LIMIT THEN FALSE
             ELSE TRUE

\* the usage data after record_post at the instant t
Recorded(u, t) ==
    LET rolled == _check_month_rollover(u, t)
    IN  [rolled EXCEPT
            !.posts_this_month = @ + 1,
            !.daily_posts = Put(@, Today(t), GetOr(@, Today(t), 0) + 1)]

UnchangedOutsideUsage ==
    /\ UNCHANGED <<data, file, disk, hashseed, marks, lastReply, lastRss,
                   lastTheme, clsIn, clsOut>>
    /\ UNCHANGED <<clientVars, pipelineVars, limiterVars>>

\* _check_month_rollover saves the usage data when the month has changed
RolloverStep ==
    /\ usage_data' = _check_month_rollover(usage_data, now)
    /\ usage_file' = IF usage_data' # usage_data THEN json_dump(usage_data')
                     ELSE usage_file

\* permit: the last can_post / can_engage returned true and nothing was
\* recorded since; the program does not read it
can_post ==
    /\ RolloverStep
    /\ permit' = can_post_returns(usage_data, now)
    /\ UNCHANGED now
    /\ UnchangedOutsideUsage

can_engage == can_post

\* can_read and get_usage_stats change the usage data by the month
\* rollover only
can_read ==
    /\ RolloverStep
    /\ UNCHANGED <<permit, now>>
    /\ UnchangedOutsideUsage

get_usage_stats == can_read

\* record_post, called by a caller that was told it can post
record_post ==
    /\ permit
    /\ usage_data' = Recorded(usage_data, now)
    /\ usage_file' = json_dump(usage_data')
    /\ permit' = FALSE
    /\ UNCHANGED now
    /\ UnchangedOutsideUsage

record_write == record_post

\* the process ends and a later run constructs APIUsageTracker() on the
\* same usage_file
UsageRestart ==
    /\ usage_data' = _load_usage_data(usage_file, now)
    /\ permit' = FALSE
    /\ UNCHANGED <<usage_file, now>>
    /\ UnchangedOutsideUsage

\* the instants (in hours) the clock of the usage tracker visits: 1 and
\* 2 January, 31 January, 1 February, 1 March
UsageInstants == {0, 24, 30 * 24 + 23, 31 * 24, 59 * 24}

UsageTick ==
    /\ now' \in {t \in UsageInstants : t > now}
    /\ UNCHANGED usageVars
    /\ UnchangedOutsideUsage

NextUsage ==
    \/ can_post
    \/ can_engage
    \/ can_read
    \/ get_usage_stats
    \/ record_post
    \/ record_write
    \/ UsageRestart
    \/ UsageTick

SpecUsage == Init /\ [][NextUsage]_vars

---------------------------------------------------------------------------
(* RateLimitOptimizer.  The clock counts minutes.  endpoint_windows is a   *)
(* dict from endpoint to the list of request times; the list is kept as    *)
(* the set of <<time, number of entries with that time>>, its order is     *)
(* never read.  Each "with self.lock" block is one step, taken when the    *)
(* lock is not held; get_efficiency_stats keeps the lock across its loop.  *)

\* RATE_LIMITS.get(endpoint, 300): every endpoint of RATE_LIMITS has 300
DefaultLimit == 300
RATE_LIMITS ==
    {<<"search_recent", 300>>, <<"create_tweet", 300>>,
     <<"create_reply", 300>>, <<"get_users", 300>>, <<"get_tweets", 300>>}

\* timedelta(minutes=15)
WindowMinutes == 15

\* len() of a list of request times
WindowLen(window) == SetSum(window)

\* list.append(current_time)
WindowAppend(window, t) == Put(window, t, GetOr(window, t, 0) + 1)

\* the handler that overwrites the backoff instead of taking the maximum
BackoffOverwrite(backoff, reset_time, t) ==
    IF ~IsNone(reset_time) /\ TheValue(reset_time) # 0
    THEN TheValue(reset_time)
    ELSE t + WindowMinutes

\* global_backoff after handle_rate_limit_error(endpoint, reset_time) at
\* the instant t; "if reset_time" is false for None and for 0
BackoffAfterError(backoff, reset_time, t) ==
    LET backoff_until ==
            IF ~IsNone(reset_time) /\ TheValue(reset_time) # 0
            THEN TheValue(reset_time)
            ELSE t + WindowMinutes
    IN  IF backoff >= backoff_until THEN backoff ELSE backoff_until

\* can_make_request(endpoint) at the instant t: what it returns and what
\* it leaves in endpoint_windows and global_backoff
CanMakeRequest(windows, backoff, t, endpoint) ==
    IF backoff > 0 /\ t < backoff
    THEN [returns |-> FALSE, windows |-> windows, backoff |-> backoff]
    ELSE LET window_start == t - WindowMinutes
             kept == {req \in GetOr(windows, endpoint, {}) :
                         req[1] > window_start}
             current_requests == WindowLen(kept)
             limit == GetOr(RATE_LIMITS, endpoint, DefaultLimit)
         IN  [returns |-> ~(current_requests >= limit),
              windows |-> Put(windows, endpoint, kept),
              backoff |-> 0]

UnchangedOutsideLimiter ==
    /\ UNCHANGED <<data, file, disk, now, hashseed, marks, lastReply, lastRss,
                   lastTheme, clsIn, clsOut>>
    /\ UNCHANGED <<clientVars, pipelineVars, usageVars>>

can_make_request(thread, endpoint) ==
    /\ pc[thread].at \in {"idle", "permitted"}
    /\ lock = Unlocked
    /\ LET call == CanMakeRequest(endpoint_windows, global_backoff, clock,
                                  endpoint)
       IN  /\ endpoint_windows' = call.windows
           /\ global_backoff' = call.backoff
           /\ pc' = [pc EXCEPT ![thread] =
                        IF call.returns THEN Permitted(endpoint) ELSE Idle]
    /\ UNCHANGED <<lock, clock, deadline>>
    /\ UnchangedOutsideLimiter

\* record_request(endpoint), called by a thread that was told it can make
\* the request
record_request(thread, endpoint) ==
    /\ pc[thread] = Permitted(endpoint)
    /\ lock = Unlocked
    /\ endpoint_windows' =
           Put(endpoint_windows, endpoint,
               WindowAppend(GetOr(endpoint_windows, endpoint, {}), clock))
    /\ pc' = [pc EXCEPT ![thread] = Idle]
    /\ UNCHANGED <<global_backoff, lock, clock, deadline>>
    /\ UnchangedOutsideLimiter

\* deadline: the latest backoff_until any call has computed and the one
\* the last call computed; the program does not read it
handle_rate_limit_error(thread, endpoint, reset_time) ==
    /\ pc[thread].at \in {"idle", "permitted"}
    /\ lock = Unlocked
    /\ global_backoff' = BackoffAfterError(global_backoff, reset_time, clock)
    /\ LET backoff_until == BackoffAfterError(0, reset_time, clock)
       IN  deadline' = [latest |-> IF deadline.latest >= backoff_until
                                   THEN deadline.latest ELSE backoff_until,
                        last   |-> backoff_until]
    /\ UNCHANGED <<endpoint_windows, lock, pc, clock>>
    /\ UnchangedOutsideLimiter

\* get_optimal_delay(endpoint) reads under the lock and returns a number.
\* Called from the loop of get_efficiency_stats, it ends the visit of the
\* endpoint, and the loop with the last of them
get_optimal_delay(thread, endpoint) ==
    /\ lock = Unlocked
    /\ IF pc[thread].at = "get_efficiency_stats"
       THEN /\ endpoint \in pc[thread].todo
            /\ pc' = [pc EXCEPT ![thread] =
                         IF pc[thread].todo = {endpoint} THEN Idle
                         ELSE InStats(pc[thread].todo \ {endpoint})]
       ELSE UNCHANGED pc
    /\ UNCHANGED <<endpoint_windows, global_backoff, lock, clock, deadline>>
    /\ UnchangedOutsideLimiter

\* get_efficiency_stats takes the lock and loops over endpoint_windows,
\* calling self.get_optimal_delay(endpoint) for each endpoint; with no
\* endpoint it returns at once
get_efficiency_stats(thread) ==
    /\ pc[thread].at \in {"idle", "permitted"}
    /\ lock = Unlocked
    /\ IF endpoint_windows = {}
       THEN UNCHANGED <<lock, pc>>
       ELSE /\ lock' = thread
            /\ pc' = [pc EXCEPT ![thread] = InStats(Keys(endpoint_windows))]
    /\ UNCHANGED <<endpoint_windows, global_backoff, clock, deadline>>
    /\ UnchangedOutsideLimiter

\* datetime.now() moves on to one of the instants
LimiterTick(instants) ==
    /\ clock' \in {t \in instants : t > clock}
    /\ UNCHANGED <<endpoint_windows, global_backoff, lock, pc, deadline>>
    /\ UnchangedOutsideLimiter

\* the endpoint the threads make requests to, and one that is not in
\* RATE_LIMITS
Endpoints == {"create_tweet", "mentions"}

\* threads that ask before each request, over 20 minutes
ThreadInstants == {0, 10, 20}

NextLimiter ==
    \/ \E thread \in Threads : can_make_request(thread, "create_tweet")
    \/ \E thread \in Threads : record_request(thread, "create_tweet")
    \/ LimiterTick(ThreadInstants)

SpecLimiter == Init /\ [][NextLimiter]_vars

\* threads that also ask for the statistics, at one instant; a thread
\* that can take a step is scheduled in the end
ThreadStep(thread) ==
    \/ can_make_request(thread, "create_tweet")
    \/ record_request(thread, "create_tweet")
    \/ get_efficiency_stats(thread)
    \/ \E endpoint \in Endpoints : get_optimal_delay(thread, endpoint)

NextStats == \E thread \in Threads : ThreadStep(thread)

\* a thread inside get_efficiency_stats goes on whenever it can
SpecStats ==
    /\ Init
    /\ [][NextStats]_vars
    /\ \A thread \in Threads :
          WF_vars(\E endpoint \in Endpoints : get_optimal_delay(thread, endpoint))

\* one caller with rate limit errors: the reset times the errors carry
\* (None, 0 and two instants) and the instants of the clock
ResetTimes == {None, Some(0), Some(10), Some(30)}
BackoffInstants == {0, 20, 40}

NextBackoff ==
    \/ \E endpoint \in Endpoints, reset_time \in ResetTimes :
          handle_rate_limit_error("T1", endpoint, reset_time)
    \/ \E endpoint \in Endpoints : can_make_request("T1", endpoint)
    \/ record_request("T1", "create_tweet")
    \/ LimiterTick(BackoffInstants)

SpecBackoff == Init /\ [][NextBackoff]_vars

---------------------------------------------------------------------------
(* TwitterBotClient: create_and_post_content and discover_and_engage with  *)
(* its four handlers.  An operation is one step; trace keeps, in order,    *)
(* the calls it made to has_posted_similar_content, to the publishing      *)
(* service (post_tweet, reply_to_tweet) and to the mark_* operations.      *)

max_daily_posts == 16
max_daily_engagements == 16
\* min_post_interval = 3600 seconds, in hours
min_post_interval == 1

\* one call of the trace: the text it was given and what it returned
\* ("True" / "False" for the check; an id, "None" or "raises" for the
\* publishing service; "None" for a mark)
Call(name, text, returns) == [call |-> name, text |-> text, returns |-> returns]

\* what post_tweet and reply_to_tweet can do: return the id of the tweet,
\* return None, raise
PublishOutcomes == {"1001", "None", "raises"}
IsTweetId(outcome) == outcome \notin {"None", "raises"}

\* bool as the string the trace keeps
PyBool(b) == IF b THEN "True" ELSE "False"

\* "spam", "scam", "hate"
inappropriate_terms ==
    {<<"s","p","a","m">>, <<"s","c","a","m">>, <<"h","a","t","e">>}

_validate_post_content(content) ==
    IF content = <<>> \/ Len(content) < 10 THEN FALSE
    ELSE IF Len(content) > 280 THEN FALSE
         ELSE IF \E term \in inappropriate_terms :
                     IsSubstring(term, Lower(content))
              THEN FALSE
              ELSE TRUE

_check_posting_limits ==
    IF daily_post_count >= max_daily_posts THEN FALSE
    ELSE IF ~IsNone(last_post_time)
            /\ now - TheValue(last_post_time) < min_post_interval
         THEN FALSE
         ELSE TRUE

_check_engagement_limits ==
    IF daily_engagement_count >= max_daily_engagements THEN FALSE ELSE TRUE

\* the store after mark_content_posted / mark_rss_post_used at the instant t
WithPosted(d, t, content, content_type, context) ==
    [d EXCEPT !.posted_content =
        Append(@, [content       |-> content,
                   content_type  |-> ClassTable[<<content, context>>],
                   original_type |-> content_type,
                   context       |-> context,
                   timestamp     |-> isoformat(t)])]
WithRssUsed(d, t, seed, username, content) ==
    [d EXCEPT !.used_rss_posts =
        Put(@, content_hash(seed, username, content), isoformat(t))]

\* what an operation leaves: the tracker's store, the calls it made,
\* whether it counted a write (the daily counter and record_post /
\* record_write), how many mark_* calls it made and the RSS post it marked
Outcome(d, calls, wrote, marked, rss) ==
    [data |-> d, trace |-> calls, wrote |-> wrote, marked |-> marked,
     rss |-> rss]

\* the same with the verdict of the check ignored
PostUnchecked(content, outcome, duplicate) ==
    LET check == Call("has_posted_similar_content", content, PyBool(duplicate))
        post  == Call("post_tweet", content, outcome)
        mark  == Call("mark_content_posted", content, "None")
        cleaned == _clean_old_entries(data, now)
    IN  IF IsTweetId(outcome)
        THEN Outcome(WithPosted(cleaned, now, content, "insight", NoContext),
                     <<check, post, mark>>, TRUE, 1, {})
        ELSE Outcome(cleaned, <<check, post>>, FALSE, 0, {})

\* create_and_post_content from its limit checks on, with the verdict of
\* has_posted_similar_content in hand
PostChecked(content, outcome, duplicate) ==
    LET check == Call("has_posted_similar_content", content, PyBool(duplicate))
        post  == Call("post_tweet", content, outcome)
        mark  == Call("mark_content_posted", content, "None")
        cleaned == _clean_old_entries(data, now)
    IN  IF duplicate THEN Outcome(cleaned, <<check>>, FALSE, 0, {})
        ELSE IF IsTweetId(outcome)
             THEN Outcome(WithPosted(cleaned, now, content, "insight", NoContext),
                          <<check, post, mark>>, TRUE, 1, {})
             ELSE Outcome(cleaned, <<check, post>>, FALSE, 0, {})

\* create_and_post_content from the validation on, with the content
\* (custom or generated) in hand
CreateAndPost(content, dry_run, outcome) ==
    IF ~_validate_post_content(content) THEN Outcome(data, <<>>, FALSE, 0, {})
    ELSE IF dry_run THEN Outcome(data, <<>>, FALSE, 0, {})
    ELSE IF ~_check_posting_limits THEN Outcome(data, <<>>, FALSE, 0, {})
    ELSE IF ~can_post_returns(usage_data, now)
         THEN Outcome(data, <<>>, FALSE, 0, {})
    ELSE PostChecked(content, outcome,
                     has_posted_similar_content_returns(
                         data, now, content, NoContext))

\* _handle_viral_reply and _handle_trending_content: the arguments of
\* their call of has_posted_similar_content name a variable, opportunity,
\* that these two functions do not have; evaluating them raises NameError
\* before the check is called, and discover_and_engage catches it
_handle_viral_reply(content_result, ai_content, outcome) ==
    Outcome(data, <<>>, FALSE, 0, {})

_handle_trending_content(content_result, ai_content, outcome) ==
    Outcome(data, <<>>, FALSE, 0, {})

\* _handle_inspired_content and _handle_rss_reply from the generated text
\* on, with the verdict of has_posted_similar_content in hand; the two
\* differ in the last step: after a standalone post the first also calls
\* mark_content_posted
RssChecked(opportunity, tweet_content, outcome, marks_standalone, duplicate) ==
    LET username == opportunity.source_username
        cleaned == _clean_old_entries(data, now)
        context == opportunity.original_content
        check == Call("has_posted_similar_content", tweet_content,
                      PyBool(duplicate))
        used  == Call("mark_rss_post_used", opportunity.content, "None")
        mark  == Call("mark_content_posted", tweet_content, "None")
        marked_rss == WithRssUsed(cleaned, now, hashseed, username,
                                  opportunity.content)
        post == <<username, opportunity.content>>
    IN  IF duplicate THEN Outcome(cleaned, <<check>>, FALSE, 0, {})
        ELSE IF ~IsNone(opportunity.original_tweet_id)
             THEN LET reply == Call("reply_to_tweet", tweet_content, outcome)
                  IN  IF IsTweetId(outcome)
                      THEN Outcome(marked_rss, <<check, reply, used>>,
                                   TRUE, 1, {post})
                      ELSE Outcome(cleaned, <<check, reply>>, FALSE, 0, {})
             ELSE LET standalone == Call("post_tweet", tweet_content, outcome)
                  IN  IF ~IsTweetId(outcome)
                      THEN Outcome(cleaned, <<check, standalone>>, FALSE, 0, {})
                      ELSE IF marks_standalone
                           THEN Outcome(WithPosted(marked_rss, now, tweet_content,
                                                   "insight", context),
                                        <<check, standalone, used, mark>>,
                                        TRUE, 2, {post})
                           ELSE Outcome(marked_rss, <<check, standalone, used>>,
                                        TRUE, 1, {post})

RssHandler(content_result, ai_content, outcome, marks_standalone) ==
    IF has_used_rss_post_returns(data, now, hashseed,
                                 content_result.opportunity.source_username,
                                 content_result.opportunity.content)
    THEN Outcome(_clean_old_entries(data, now), <<>>, FALSE, 0, {})
    ELSE IF ai_content = <<>>
         THEN Outcome(_clean_old_entries(data, now), <<>>, FALSE, 0, {})
         ELSE RssChecked(content_result.opportunity, Strip(ai_content), outcome,
                         marks_standalone,
                         has_posted_similar_content_returns(
                             data, now, Strip(ai_content),
                             content_result.opportunity.original_content))

_handle_inspired_content(content_result, ai_content, outcome) ==
    RssHandler(content_result, ai_content, outcome, TRUE)

_handle_rss_reply(content_result, ai_content, outcome) ==
    RssHandler(content_result, ai_content, outcome, FALSE)

\* an unknown action type raises, and discover_and_engage catches it
_execute_engagement_strategy(content_result, ai_content, outcome) ==
    LET action_type == content_result.action_type
    IN  IF action_type = "direct_viral_reply"
        THEN _handle_viral_reply(content_result, ai_content, outcome)
        ELSE IF action_type = "rss_reply"
        THEN _handle_rss_reply(content_result, ai_content, outcome)
        ELSE IF action_type = "trending_post"
        THEN _handle_trending_content(content_result, ai_content, outcome)
        ELSE IF action_type \in {"inspired_engagement", "standalone_post"}
        THEN _handle_inspired_content(content_result, ai_content, outcome)
        ELSE Outcome(data, <<>>, FALSE, 0, {})

\* discover_and_engage from its limit checks on, with the result of the
\* content discovery in hand
DiscoverAndEngage(content_result, ai_content, outcome, dry_run) ==
    IF ~_check_engagement_limits THEN Outcome(data, <<>>, FALSE, 0, {})
    ELSE IF ~can_post_returns(usage_data, now)
         THEN Outcome(data, <<>>, FALSE, 0, {})
    ELSE IF ~content_result.success \/ dry_run
         THEN Outcome(data, <<>>, FALSE, 0, {})
    ELSE _execute_engagement_strategy(content_result, ai_content, outcome)

\* the state after an operation: the tracker's store and file, the usage
\* data (can_post and can_engage, when the operation got as far as asking,
\* roll the month over; a counted write is recorded) and the trace
Leaves(result, asked) ==
    /\ data' = result.data
    /\ file' \in (IF result.marked > 0
                  THEN _save_tracker_data(file, data', disk) ELSE {file})
    /\ marks' = marks + result.marked
    /\ lastRss' = IF result.rss = {} THEN lastRss
                  ELSE LET post == CHOOSE post \in result.rss : TRUE
                       IN  Put(lastRss, post,
                               [at |-> now,
                                key |-> content_hash(hashseed, post[1], post[2])])
    /\ usage_data' = IF result.wrote THEN Recorded(usage_data, now)
                     ELSE IF asked
                          THEN _check_month_rollover(usage_data, now)
                          ELSE usage_data
    /\ usage_file' = IF usage_data' # usage_data THEN json_dump(usage_data')
                     ELSE usage_file
    /\ permit' = FALSE
    /\ trace' = result.trace
    /\ UNCHANGED <<disk, now, hashseed, lastReply, lastTheme, clsIn, clsOut>>
    /\ UNCHANGED <<pipelineVars, limiterVars>>

create_and_post_content(content, dry_run, outcome) ==
    /\ marks < MaxMarks
    /\ \E result \in {CreateAndPost(content, dry_run, outcome)} :
           /\ Leaves(result, /\ _validate_post_content(content)
                              /\ ~dry_run
                              /\ _check_posting_limits)
           /\ daily_post_count' =
                  IF result.wrote THEN daily_post_count + 1 ELSE daily_post_count
           /\ last_post_time' =
                  IF result.wrote THEN Some(now) ELSE last_post_time
    /\ UNCHANGED daily_engagement_count

discover_and_engage(content_result, ai_content, outcome, dry_run) ==
    /\ marks < MaxMarks
    /\ \E result \in {DiscoverAndEngage(content_result, ai_content, outcome,
                                         dry_run)} :
           /\ Leaves(result, _check_engagement_limits)
           /\ daily_engagement_count' =
                  IF result.wrote THEN daily_engagement_count + 1
                  ELSE daily_engagement_count
    /\ UNCHANGED <<daily_post_count, last_post_time>>

_daily_reset ==
    /\ daily_post_count' = 0
    /\ daily_engagement_count' = 0
    /\ UNCHANGED <<last_post_time, trace>>
    /\ UNCHANGED <<data, file, disk, now, hashseed, marks, lastReply, lastRss,
                   lastTheme, clsIn, clsOut>>
    /\ UNCHANGED <<pipelineVars, usageVars, limiterVars>>

\* the texts the client is given or generates: the three of MarkTexts,
\* "@bob #ai" (too short to post), and for the handlers " It is what it
\* is. " (which strip() trims) and "" (the generation gave nothing)
ClientTexts == MarkTexts \cup {TextMention}
AiTexts == {TextLesson, <<" ">> \o TextStop \o <<" ">>, <<>>}

\* what the content discovery hands over
Opportunities ==
    {[source_username |-> Alice, content |-> TextLesson,
      original_content |-> NoContext, original_tweet_id |-> Some("t1")],
     [source_username |-> Bob, content |-> TextLesson,
      original_content |-> NoContext, original_tweet_id |-> None]}
Discovered(action_type, opportunity) ==
    [success |-> action_type # "none", action_type |-> action_type,
     opportunity |-> opportunity]
ContentResults ==
    {Discovered("rss_reply", opportunity) : opportunity \in Opportunities}
    \cup {Discovered("inspired_engagement", opportunity) :
              opportunity \in Opportunities}
    \cup {Discovered(action_type,
                     CHOOSE opportunity \in Opportunities :
                         IsNone(opportunity.original_tweet_id)) :
              action_type \in {"direct_viral_reply", "trending_post", "other",
                              "none"}}

\* an hour, which ends the posting interval, and 30 days and an hour,
\* which ends every retention period
ClientInstants == {0, 1, 721}

ClientTick ==
    /\ now' \in {t \in ClientInstants : t > now}
    /\ UNCHANGED <<data, file, disk, hashseed, marks, lastReply, lastRss,
                   lastTheme>>
    /\ UnchangedElsewhere

NextClient ==
    \/ \E content \in ClientTexts, dry_run \in BOOLEAN,
          outcome \in PublishOutcomes :
          create_and_post_content(content, dry_run, outcome)
    \/ \E content_result \in ContentResults, ai_content \in AiTexts,
          outcome \in PublishOutcomes, dry_run \in BOOLEAN :
          discover_and_engage(content_result, ai_content, outcome, dry_run)
    \/ _daily_reset
    \/ ClientTick

SpecClient == Init /\ [][NextClient]_vars

---------------------------------------------------------------------------
(* EmailPipeline.send_content_email on its own ContentTracker instance     *)
(* (email_data), built on the same tracker_file as the client's (data)     *)

max_daily_emails == 18

\* the store after mark_email_content_generated(content) and after
\* mark_theme_used(theme) at the instant t
WithEmail(d, t, content) ==
    [d EXCEPT !.email_content =
        Append(@, [content       |-> content,
                   content_type  |-> ClassTable[<<content, NoContext>>],
                   original_type |-> "",
                   context       |-> NoContext,
                   timestamp     |-> isoformat(t)])]
WithTheme(d, t, theme) ==
    [d EXCEPT !.content_themes = Put(@, theme, isoformat(t))]

\* what a run leaves: the pipeline's store, whether it marked (and so
\* wrote the file) and the suggestions it emailed, with their theme
Ran(d, marked, emailed) == [data |-> d, marked |-> marked, emailed |-> emailed]

\* steps 6: the SMTP send, and on success the two marks
Deliver(d, post_suggestions, main_theme, email_content_hash, success) ==
    IF success
    THEN Ran(WithTheme(WithEmail(d, now, email_content_hash), now, main_theme),
             TRUE, {[suggestions |-> post_suggestions, theme |-> main_theme]})
    ELSE Ran(d, FALSE, {})

\* step 5 on, with the verdicts of has_generated_similar_email and
\* has_used_theme_recently in hand: on a duplicate the run tries other
\* posts with another theme (none could be generated: the run is
\* skipped); the digest stays the one of the first suggestions
EmailChecked(post_suggestions, main_theme, alternative, success, has_content_duplicate, has_theme_duplicate) ==
    IF has_content_duplicate \/ has_theme_duplicate
    THEN IF IsNone(alternative)
         THEN Ran(_clean_old_entries(email_data, now), FALSE, {})
         ELSE IF has_used_theme_recently_returns(
                     email_data, now, TheValue(alternative).theme, 6)
              THEN Ran(_clean_old_entries(email_data, now), FALSE, {})
              ELSE Deliver(_clean_old_entries(email_data, now),
                           TheValue(alternative).posts,
                           TheValue(alternative).theme,
                           _generate_email_content_hash(post_suggestions, now),
                           success)
    ELSE Deliver(_clean_old_entries(email_data, now), post_suggestions,
                 main_theme,
                 _generate_email_content_hash(post_suggestions, now), success)

EmailRun(post_suggestions, main_theme, alternative, success) ==
    EmailChecked(post_suggestions, main_theme, alternative, success,
                 has_generated_similar_email_returns(
                     email_data, now, StrOfList(post_suggestions), NoContext),
                 has_used_theme_recently_returns(email_data, now, main_theme, 6))

\* send_content_email with the suggestions and the theme of the run in
\* hand (trending_context is empty: the theme is the trend topic); sent
\* remembers what was emailed and when (the program does not read it)
send_content_email(post_suggestions, main_theme, alternative, success) ==
    /\ marks <= MaxMarks
    /\ IF emails_sent_today >= max_daily_emails
       THEN UNCHANGED <<email_data, file, marks, emails_sent_today, sent>>
       ELSE \E run \in {EmailRun(post_suggestions, main_theme, alternative,
                                 success)} :
               /\ email_data' = run.data
               /\ file' \in (IF run.marked
                             THEN _save_tracker_data(file, email_data', disk)
                             ELSE {file})
               /\ marks' = IF run.marked THEN marks + 2 ELSE marks
               /\ emails_sent_today' =
                      IF run.marked THEN emails_sent_today + 1
                      ELSE emails_sent_today
               /\ sent' = sent \cup {[suggestions |-> mail.suggestions,
                                       theme |-> mail.theme, at |-> now] :
                                         mail \in run.emailed}
    /\ UNCHANGED <<data, disk, now, hashseed, lastReply, lastRss, lastTheme,
                   clsIn, clsOut>>
    /\ UNCHANGED <<clientVars, usageVars, limiterVars>>

\* the process ends; the scheduler of a later run constructs the client
\* and the pipeline, and each constructs ContentTracker() on the file
SharedRestart ==
    /\ data' = _load_tracker_data(file)
    /\ email_data' = _load_tracker_data(file)
    /\ emails_sent_today' = 0
    /\ hashseed' \in Seeds
    /\ UNCHANGED <<file, disk, now, marks, lastReply, lastRss, lastTheme,
                   clsIn, clsOut, sent>>
    /\ UNCHANGED <<clientVars, usageVars, limiterVars>>

SharedTick ==
    /\ now' \in {t \in SharedInstants : t > now}
    /\ UNCHANGED <<data, file, disk, hashseed, marks, lastReply, lastRss,
                   lastTheme>>
    /\ UnchangedElsewhere

\* the trend topics and the other posts a run can come to
TrendTopics == {"ai", "general_content"}
Alternatives ==
    {None,
     Some([posts |-> <<Suggestion(TextCats)>>,
           theme |-> "Product development best practices"])}

\* the client's tracker marks what the client has it mark; the pipeline
\* runs in the same process
NextShared ==
    \/ \E in \in PostedInputs :
          mark_content_posted(in[1], "insight", in[2])
    \/ \E post \in RssPosts : mark_rss_post_used(post[1], post[2])
    \/ \E post_suggestions \in SuggestionLists, main_theme \in TrendTopics,
          alternative \in Alternatives, success \in BOOLEAN :
          send_content_email(post_suggestions, main_theme, alternative, success)
    \/ SharedRestart
    \/ SharedTick

SpecShared == Init /\ [][NextShared]_vars

---------------------------------------------------------------------------
(* Claims                                                                  *)

\* the text has a key word of the set somewhere between two positions
ContainsAny(keywords, text) ==
    \E k \in keywords :
        \E i \in 0..Len(text), j \in 0..Len(text) :
            i <= j /\ SubSeq(text, i + 1, j) = k

Joined(content, context) == Lower(content \o <<" ">> \o context)

\* which inputs of the classifier hold a News / a Personal key word
HasNewsWord ==
    [q \in ClassifyContents \X ClassifyContexts |->
        ContainsAny(news_content_types, Joined(q[1], q[2]))] @@ <<>>
HasPersonalWord ==
    [q \in ClassifyContents \X ClassifyContexts |->
        ContainsAny(similarity_content_types, Joined(q[1], q[2]))] @@ <<>>

\* the terms of a text that are in the vocabulary fitted on the text and
\* the stored texts
FittedTerms(content, existing_contents) ==
    LET all_content == <<_preprocess_content(content)>> \o
                       [i \in DOMAIN existing_contents |->
                           _preprocess_content(existing_contents[i])]
        docs == [i \in DOMAIN all_content |-> Analyze(all_content[i])]
    IN  Range(docs[1]) \cap Vocabulary(docs)

FittedTable ==
    [q \in Texts \X Corpora |-> FittedTerms(q[1], q[2]) # {}] @@ <<>>

\* the hours since the instant t
Age(t) == now - t

\* C1 as stated: after mark_content_posted(T), has_posted_similar_content(T)
\* at once returns true for every T the check classifies as Personal
C1_SelfSimilarAnyText ==
    [][\A in \in PostedInputs, content_type \in ContentTypes :
          mark_content_posted(in[1], content_type, in[2]) =>
              \A context \in Contexts :
                  ClassTable[<<in[1], context>>] = "personal" =>
                      has_posted_similar_content_returns(data', now', in[1], context)
      ]_vars

\* C1 amended: after mark_content_posted(T), has_posted_similar_content(T)
\* at once returns true for every T the check classifies as Personal and
\* that keeps at least one term in the fitted vocabulary
C1_SelfSimilarWithTerms ==
    [][\A in \in PostedInputs, content_type \in ContentTypes :
          mark_content_posted(in[1], content_type, in[2]) =>
              \A context \in Contexts :
                  ( /\ ClassTable[<<in[1], context>>] = "personal"
                    /\ FittedTable[<<in[1], Contents(data'.posted_content)>>] )
                  => has_posted_similar_content_returns(data', now', in[1], context)
      ]_vars

\* C1 witness: "A lesson learned" was recorded at this instant and the
\* check on it returns true
C1_Witness ==
    /\ data.posted_content # <<>>
    /\ LET last == data.posted_content[Len(data.posted_content)]
       IN  /\ last.content = TextLesson
           /\ fromisoformat(last.timestamp) = now
    /\ has_posted_similar_content_returns(data, now, TextLesson, NoContext)

\* C2: has_replied_to_tweet(id) is true at every moment less than 30 days
\* after mark_tweet_replied(id), whatever ran in between
C2_RepliedWithin30Days ==
    \A tweet_id \in Keys(lastReply) :
        Age(Get(lastReply, tweet_id)) < 30 * 24 =>
            has_replied_to_tweet_returns(data, tweet_id)

\* the store with every entry older than its retention window removed
RetentionFiltered(d, t) ==
    [replied_tweets |->
         {p \in d.replied_tweets :
             t - fromisoformat(p[2].timestamp) <= 30 * 24},
     used_rss_posts |->
         {p \in d.used_rss_posts : t - fromisoformat(p[2]) <= 7 * 24},
     email_content |->
         SelectSeq(d.email_content,
                   LAMBDA r : t - fromisoformat(r.timestamp) <= 14 * 24),
     posted_content |->
         SelectSeq(d.posted_content,
                   LAMBDA r : t - fromisoformat(r.timestamp) <= 30 * 24),
     content_themes |->
         {p \in d.content_themes : t - fromisoformat(p[2]) <= 6}]

\* C3: each of the five queries answers as it would on the store with the
\* stale entries removed
C3_NoStaleInfluence ==
    LET fresh == RetentionFiltered(data, now)
    IN  /\ \A content \in Texts, context \in Contexts :
              /\ has_posted_similar_content_returns(data, now, content, context)
                 = has_posted_similar_content_returns(fresh, now, content, context)
              /\ has_generated_similar_email_returns(data, now, content, context)
                 = has_generated_similar_email_returns(fresh, now, content, context)
        /\ \A tweet_id \in TweetIds :
              has_replied_to_tweet_returns(data, tweet_id)
              = (tweet_id \in Keys(fresh.replied_tweets))
        /\ \A post \in RssPosts :
              has_used_rss_post_returns(data, now, hashseed, post[1], post[2])
              = (content_hash(hashseed, post[1], post[2])
                    \in Keys(fresh.used_rss_posts))
        /\ \A theme \in Themes, timeframe_hours \in Timeframes :
              has_used_theme_recently_returns(data, now, theme, timeframe_hours)
              = ( /\ theme \in Keys(fresh.content_themes)
                  /\ Age(fromisoformat(Get(fresh.content_themes, theme)))
                         < timeframe_hours )

\* C4: the fingerprint a run stored for (username, content) is the
\* fingerprint the current run computes for it
C4_FingerprintStable ==
    \A post \in Keys(lastRss) :
        Get(lastRss, post).key = content_hash(hashseed, post[1], post[2])

\* C5: has_used_rss_post(u, c) is true at every moment less than 7 days
\* after mark_rss_post_used(u, c) and false once more than 7 days have
\* passed since the last mark
C5_RssUsedFor7Days ==
    \A post \in RssPosts :
        LET used == has_used_rss_post_returns(data, now, hashseed,
                                              post[1], post[2])
        IN  /\ ( /\ post \in Keys(lastRss)
                 /\ Age(Get(lastRss, post).at) < 7 * 24 ) => used
            /\ ( /\ post \in Keys(lastRss)
                 /\ \A other \in Keys(lastRss) :
                        Age(Get(lastRss, other).at) > 7 * 24 ) => ~used

\* C6: the two duplicate checks return false for every (content, context)
\* the classifier puts in News, whatever the store holds
C6_NewsBypass ==
    \A content \in Texts, context \in Contexts :
        ClassTable[<<content, context>>] = "news" =>
            /\ ~has_posted_similar_content_returns(data, now, content, context)
            /\ ~has_generated_similar_email_returns(data, now, content, context)

\* C6 witness: posted_content and email_content hold "Launch lesson", a
\* News text whose similarity to the stored texts is above the threshold,
\* and both checks on it return false
C6_Witness ==
    /\ \E i \in DOMAIN data.posted_content :
          /\ data.posted_content[i].content = TextNews
          /\ Age(fromisoformat(data.posted_content[i].timestamp)) <= 14 * 24
    /\ \E i \in DOMAIN data.email_content :
          /\ data.email_content[i].content = TextNews
          /\ Age(fromisoformat(data.email_content[i].timestamp)) <= 14 * 24
    /\ ClassTable[<<TextNews, NoContext>>] = "news"
    /\ _calculate_similarity(TextNews, Contents(data.posted_content))
           > similarity_threshold
    /\ ~has_posted_similar_content_returns(data, now, TextNews, NoContext)
    /\ ~has_generated_similar_email_returns(data, now, TextNews, NoContext)

\* C7: a text whose lower-cased content + " " + context contains a News
\* key word and a Personal key word is classified News
C7_NewsPriority ==
    ( /\ clsOut # "none"
      /\ HasNewsWord[clsIn]
      /\ HasPersonalWord[clsIn] )
    => clsOut = "news"

\* C7 witness: "Launch lesson" with the context "My OPINION" was classified
\* News
C7_Witness ==
    /\ clsIn = <<TextNews, TextOpinion>>
    /\ HasNewsWord[clsIn]
    /\ HasPersonalWord[clsIn]
    /\ clsOut = "news"

\* C8: every call of the classifier returns News or Personal, returns
\* Personal when no News key word is in the lower-cased text, and leaves
\* the store and the file as they were
C8_ClassifierTotalPure ==
    [][\A content \in ClassifyContents, context \in ClassifyContexts :
          Classify(content, context) =>
              /\ clsOut' \in {"news", "personal"}
              /\ ~HasNewsWord[<<content, context>>] => clsOut' = "personal"
              /\ data' = data
              /\ file' = file
      ]_vars

\* C8 witness: "cats sleep", which has no key word of either set, was
\* classified Personal on a store that holds a record
C8_Witness ==
    /\ clsIn = <<TextCats, NoContext>>
    /\ ~HasNewsWord[clsIn]
    /\ ~HasPersonalWord[clsIn]
    /\ clsOut = "personal"
    /\ data.posted_content # <<>>

\* C9: has_used_theme_recently(theme, h) is true exactly when the theme
\* was marked, its last mark is not older than the 6-hour retention and
\* less than h hours have passed since that mark
C9_ThemeCooldown ==
    \A theme \in Themes, timeframe_hours \in Timeframes :
        has_used_theme_recently_returns(data, now, theme, timeframe_hours)
        = ( /\ theme \in Keys(lastTheme)
            /\ Age(Get(lastTheme, theme)) <= 6
            /\ Age(Get(lastTheme, theme)) < timeframe_hours )

\* C9 witness: the theme was marked, the check with a 1-hour window was
\* true at once (no time has passed since the mark)
C9_Witness ==
    /\ "ai" \in Keys(lastTheme)
    /\ Age(Get(lastTheme, "ai")) = 0
    /\ has_used_theme_recently_returns(data, now, "ai", 1)

\* C10 as stated: the two duplicate checks leave the five collections as
\* they were
C10_ChecksReadOnly ==
    [][( \E in \in CheckInputs, content_type \in ContentTypes :
            \/ has_posted_similar_content(in[1], content_type, in[2])
            \/ has_generated_similar_email(in[1], content_type, in[2]) )
          => data' = data
      ]_vars

\* C10 amended: the two duplicate checks write nothing to the file and add,
\* reorder or alter no entry; posted_content, email_content, used_rss_posts
\* and content_themes lose the entries older than their retention window
\* and nothing else, and replied_tweets only loses entries
C10_ChecksOnlyPrune ==
    [][( \E in \in CheckInputs, content_type \in ContentTypes :
            \/ has_posted_similar_content(in[1], content_type, in[2])
            \/ has_generated_similar_email(in[1], content_type, in[2]) )
          => LET fresh == RetentionFiltered(data, now)
             IN  /\ file' = file
                 /\ data'.posted_content = fresh.posted_content
                 /\ data'.email_content = fresh.email_content
                 /\ data'.used_rss_posts = fresh.used_rss_posts
                 /\ data'.content_themes = fresh.content_themes
                 /\ data'.replied_tweets \subseteq data.replied_tweets
      ]_vars

\* C10 witness: a check has pruned: the file still holds a posted record
\* that is older than 30 days and an RSS entry of less than 7 days, the
\* store has dropped the first and kept the second
C10_Witness ==
    /\ file.exists
    /\ \E i \in DOMAIN file.json.posted_content :
          Age(fromisoformat(file.json.posted_content[i].timestamp)) > 30 * 24
    /\ data.posted_content = <<>>
    /\ \E p \in data.used_rss_posts : Age(fromisoformat(p[2])) < 7 * 24

---------------------------------------------------------------------------

\* the lists another store can hold in place of posted_content or
\* email_content: no record, or one record written at this instant
OtherLists ==
    {<<>>} \cup
    {<<[content       |-> text,
        content_type  |-> ClassTable[<<text, NoContext>>],
        original_type |-> "tweet",
        context       |-> NoContext,
        timestamp     |-> isoformat(now)]>> : text \in MarkTexts}

\* C11: has_posted_similar_content answers the same on every store that
\* has this store's posted_content, whatever its email_content, and
\* has_generated_similar_email the same on every store that has this
\* store's email_content, whatever its posted_content
C11_NoCrossCollection ==
    \A content \in Texts :
        LET posted == has_posted_similar_content_returns(
                          data, now, content, NoContext)
            email  == has_generated_similar_email_returns(
                          data, now, content, NoContext)
        IN  \A other \in OtherLists :
                /\ has_posted_similar_content_returns(
                       [data EXCEPT !.email_content = other],
                       now, content, NoContext) = posted
                /\ has_generated_similar_email_returns(
                       [data EXCEPT !.posted_content = other],
                       now, content, NoContext) = email

\* C11 witness: "A lesson learned" is in email_content and not in
\* posted_content; the email check on it is true, the posted check false
C11_Witness ==
    /\ \E i \in DOMAIN data.email_content :
          /\ data.email_content[i].content = TextLesson
          /\ Age(fromisoformat(data.email_content[i].timestamp)) <= 14 * 24
    /\ \A i \in DOMAIN data.posted_content :
          data.posted_content[i].content = TextStop
    /\ data.posted_content # <<>>
    /\ has_generated_similar_email_returns(data, now, TextLesson, NoContext)
    /\ ~has_posted_similar_content_returns(data, now, TextLesson, NoContext)

\* C12: on a tracker that found no file and has marked nothing, the two
\* duplicate checks return false for every content and context
C12_FreshStoreNoDuplicate ==
    (~file.exists /\ marks = 0) =>
        \A content \in Texts, context \in Contexts :
            /\ ~has_posted_similar_content_returns(data, now, content, context)
            /\ ~has_generated_similar_email_returns(data, now, content, context)

\* C12 witness: still no file and no mark after 721 hours; the checks of
\* "A lesson learned" are false
C12_Witness ==
    /\ ~file.exists
    /\ marks = 0
    /\ now = 721
    /\ data = EmptyStore
    /\ ~has_posted_similar_content_returns(data, now, TextLesson, NoContext)
    /\ ~has_generated_similar_email_returns(data, now, TextLesson, NoContext)

\* no entry of the store d is older, at the instant t, than the retention
\* window of its collection
NoExpired(d, t) ==
    /\ \A i \in DOMAIN d.posted_content :
          t - fromisoformat(d.posted_content[i].timestamp) <= 30 * 24
    /\ \A i \in DOMAIN d.email_content :
          t - fromisoformat(d.email_content[i].timestamp) <= 14 * 24
    /\ \A p \in d.replied_tweets :
          t - fromisoformat(p[2].timestamp) <= 30 * 24
    /\ \A p \in d.used_rss_posts : t - fromisoformat(p[2]) <= 7 * 24
    /\ \A p \in d.content_themes : t - fromisoformat(p[2]) <= 6

\* C13: whenever a prune pass runs, the store it leaves holds no entry
\* older than its collection's retention window, a further pass changes
\* nothing (the similarity corpora are the pruned lists), and a tweet, RSS
\* post or theme whose last mark is older than the window gets the answer
\* false
C13_PruneDropsExpired ==
    LET cleaned == _clean_old_entries(data, now)
    IN  /\ NoExpired(cleaned, now)
        /\ _clean_old_entries(cleaned, now) = cleaned
        /\ \A tweet_id \in Keys(lastReply) :
               Age(Get(lastReply, tweet_id)) > 30 * 24 =>
                   ~has_replied_to_tweet_returns(cleaned, tweet_id)
        /\ \A post \in Keys(lastRss) :
               Age(Get(lastRss, post).at) > 7 * 24 =>
                   ~has_used_rss_post_returns(cleaned, now, hashseed,
                                              post[1], post[2])
        /\ \A theme \in Keys(lastTheme) :
               Age(Get(lastTheme, theme)) > 6 =>
                   \A timeframe_hours \in Timeframes :
                       ~has_used_theme_recently_returns(
                            cleaned, now, theme, timeframe_hours)

\* C13 witness: the theme marked more than 6 hours ago is still in the
\* file and no longer in the store, which has kept a posted record; the
\* theme check with a 24-hour window is false
C13_Witness ==
    /\ "ai" \in Keys(lastTheme)
    /\ Age(Get(lastTheme, "ai")) > 6
    /\ Age(Get(lastTheme, "ai")) < 24
    /\ file.exists
    /\ "ai" \in Keys(file.json.content_themes)
    /\ data.content_themes = {}
    /\ data.posted_content # <<>>
    /\ ~has_used_theme_recently_returns(data, now, "ai", 24)

\* the entries of d that are not older, at t, than their retention window
\* are entries of e (for the three dicts: their keys are keys of e)
InWindowKept(d, e, t) ==
    /\ \A i \in DOMAIN d.posted_content :
          t - fromisoformat(d.posted_content[i].timestamp) <= 30 * 24 =>
              \E j \in DOMAIN e.posted_content :
                  e.posted_content[j] = d.posted_content[i]
    /\ \A i \in DOMAIN d.email_content :
          t - fromisoformat(d.email_content[i].timestamp) <= 14 * 24 =>
              \E j \in DOMAIN e.email_content :
                  e.email_content[j] = d.email_content[i]
    /\ \A p \in d.used_rss_posts :
          t - fromisoformat(p[2]) <= 7 * 24 => p[1] \in Keys(e.used_rss_posts)
    /\ \A p \in d.content_themes :
          t - fromisoformat(p[2]) <= 6 => p[1] \in Keys(e.content_themes)

\* C14: no step removes from the store a record or an entry that is
\* within the retention window of its collection
C14_OnlyRetentionRemoves ==
    [][ /\ InWindowKept(data, data', now)
        /\ \A p \in data.replied_tweets :
              now - fromisoformat(p[2].timestamp) <= 30 * 24 =>
                  p[1] \in Keys(data'.replied_tweets)
      ]_vars

\* C15: mark_content_posted and mark_email_content_generated put one
\* record with the given text, the classifier's category and the current
\* timestamp after the records of their list, which stay as they were, and
\* leave the other four collections as they were
C15_MarkAppendsOne ==
    [][\A collection \in {"posted_content", "email_content"},
          in \in PostedInputs, content_type \in ContentTypes :
          MarkContent(collection, in[1], content_type, in[2]) =>
              LET n    == Len(data[collection])
                  last == data'[collection][n + 1]
              IN  /\ Len(data'[collection]) = n + 1
                  /\ SubSeq(data'[collection], 1, n) = data[collection]
                  /\ last.content = in[1]
                  /\ last.content_type = _classify_content_type(in[1], in[2])
                  /\ last.timestamp = isoformat(now)
                  /\ \A other \in DOMAIN data \ {collection} :
                         data'[other] = data[other]
      ]_vars

\* C15 witness: posted_content holds "It is what it is." recorded at 0
\* followed by "A lesson learned" recorded at this later instant
C15_Witness ==
    /\ Len(data.posted_content) = 2
    /\ data.posted_content[1].content = TextStop
    /\ data.posted_content[1].timestamp = isoformat(0)
    /\ data.posted_content[2].content = TextLesson
    /\ data.posted_content[2].content_type = "personal"
    /\ data.posted_content[2].timestamp = isoformat(now)
    /\ now > 0

\* fit_transform raises ValueError("empty vocabulary") on the text and the
\* stored texts: none of them keeps a term
EmptyVocabulary ==
    [q \in Texts \X Corpora |->
        LET all_content == <<_preprocess_content(q[1])>> \o
                           [i \in DOMAIN q[2] |-> _preprocess_content(q[2][i])]
            docs == [i \in DOMAIN all_content |-> Analyze(all_content[i])]
        IN  Vocabulary(docs) = {}] @@ <<>>

\* C19: when the vectorizer fails on the text and the texts of a non-empty
\* list, the similarity is 0 and the duplicate check on that list returns
\* false
C19_VectorizerFailureIsNoDuplicate ==
    LET cleaned == _clean_old_entries(data, now)
        posted  == Contents(cleaned.posted_content)
        email   == Contents(cleaned.email_content)
    IN  \A content \in Texts :
            /\ (posted # <<>> /\ EmptyVocabulary[<<content, posted>>]) =>
                   /\ SimilarityTable[<<content, posted>>] = 0
                   /\ \A context \in Contexts :
                          ~has_posted_similar_content_returns(
                               data, now, content, context)
            /\ (email # <<>> /\ EmptyVocabulary[<<content, email>>]) =>
                   /\ SimilarityTable[<<content, email>>] = 0
                   /\ \A context \in Contexts :
                          ~has_generated_similar_email_returns(
                               data, now, content, context)

\* C19 witness: posted_content and email_content hold "It is what it is."
\* and nothing else; the vectorizer fails on "@bob #ai" against them and
\* both checks of it return false
C19_Witness ==
    /\ Contents(data.posted_content) = <<TextStop>>
    /\ Contents(data.email_content) = <<TextStop>>
    /\ _clean_old_entries(data, now) = data
    /\ EmptyVocabulary[<<TextMention, <<TextStop>>>>]
    /\ ~has_posted_similar_content_returns(data, now, TextMention, NoContext)
    /\ ~has_generated_similar_email_returns(data, now, TextMention, NoContext)

\* usernames for the fingerprint on its own: "al" and "al:1" besides the
\* two the model marks
KeyUsernames == Usernames \cup {<<"a","l">>, <<"a","l",":","1">>}

\* the fingerprints of these usernames with the model's RSS contents
Fingerprints ==
    [q \in Seeds \X KeyUsernames \X {post[2] : post \in RssPosts} |->
        content_hash(q[1], q[2], q[3])] @@ <<>>

\* the fingerprints of (u1, c) and (u2, c) differ for u1 # u2, whichever
\* runs compute them
FingerprintsDiffer ==
    \A u1 \in KeyUsernames, u2 \in KeyUsernames :
        u1 # u2 =>
            \A post \in RssPosts, s1 \in Seeds, s2 \in Seeds :
                Fingerprints[<<s1, u1, post[2]>>]
                    # Fingerprints[<<s2, u2, post[2]>>]

\* C20: the fingerprints of (u1, c) and (u2, c) differ for u1 # u2,
\* whichever runs compute them, and has_used_rss_post(u2, c) is false as
\* long as (u2, c) itself was not marked
C20_FingerprintPerUser ==
    /\ FingerprintsDiffer
    /\ \A post \in RssPosts :
          post \notin Keys(lastRss) =>
              ~has_used_rss_post_returns(data, now, hashseed, post[1], post[2])

\* C20 witness: ("alice", c) was marked in this run less than 7 days ago
\* and is reported as used, ("bob", c) was never marked and is not
C20_Witness ==
    /\ Keys(lastRss) = {<<Alice, TextLesson>>}
    /\ Age(Get(lastRss, <<Alice, TextLesson>>).at) < 7 * 24
    /\ has_used_rss_post_returns(data, now, hashseed, Alice, TextLesson)
    /\ ~has_used_rss_post_returns(data, now, hashseed, Bob, TextLesson)

\* C16: when tracker_file is absent, unreadable or not JSON, constructing
\* a tracker yields a store with the five collections, all empty
C16_LoadFallsBack ==
    (~file.exists \/ "json" \notin DOMAIN file) =>
        LET loaded == _load_tracker_data(file)
        IN  /\ DOMAIN loaded = {"posted_content", "email_content",
                                "replied_tweets", "used_rss_posts",
                                "content_themes"}
            /\ loaded.posted_content = <<>>
            /\ loaded.email_content = <<>>
            /\ loaded.replied_tweets = {}
            /\ loaded.used_rss_posts = {}
            /\ loaded.content_themes = {}

\* C16 witness: a tracker marked a theme at this instant, the file then
\* stopped being JSON, and the tracker constructed on it has the five
\* empty collections
C16_Witness ==
    /\ file = NotJson
    /\ "ai" \in Keys(lastTheme)
    /\ Age(Get(lastTheme, "ai")) = 0
    /\ data = EmptyStore

\* the document is JSON and not a tracker store
Malformed(f) ==
    /\ f.exists
    /\ "json" \in DOMAIN f
    /\ \/ \E key \in DOMAIN EmptyStore : key \notin DOMAIN f.json
       \/ RaisesAt(f.json) # 0

\* C17: a tracker constructed on a malformed JSON document has the five
\* empty collections, and no public operation on it raises
C17_MalformedReplaced ==
    [][(Restart /\ Malformed(file)) =>
          /\ data' = EmptyStore
          /\ \A operation \in PublicOperations : ~Raises(data', operation)
      ]_vars

\* C18: a mark_* call whose write fails still puts its entry in the store
\* in memory, where the query for it finds it
C18_FailedWriteKeepsEntry ==
    [][disk = "failing" =>
          /\ \A in \in FaultInputs, content_type \in ContentTypes :
                \A collection \in {"posted_content", "email_content"} :
                    ( /\ MarkContent(collection, in[1], content_type, in[2])
                      /\ collection \in DOMAIN data ) =>
                        /\ file' \in {file, NotJson}
                        /\ Len(data'[collection]) = Len(data[collection]) + 1
                        /\ data'[collection][Len(data'[collection])].content
                               = in[1]
                        /\ ~Raises(data', "has_posted_similar_content") =>
                               HasSimilar(data', now', collection, in[1], in[2])
          /\ \A reply_id \in ReplyIds :
                mark_tweet_replied("t1", reply_id) =>
                    /\ file' \in {file, NotJson}
                    /\ has_replied_to_tweet_returns(data', "t1")
          /\ ( /\ mark_rss_post_used(Alice, TextLesson)
               /\ "used_rss_posts" \in DOMAIN data ) =>
                 /\ file' \in {file, NotJson}
                 /\ content_hash(hashseed, Alice, TextLesson)
                        \in Keys(data'.used_rss_posts)
                 /\ ~Raises(data', "has_used_rss_post") =>
                        has_used_rss_post_returns(data', now', hashseed',
                                                  Alice, TextLesson)
          /\ \A theme \in Themes :
                ( /\ mark_theme_used(theme)
                  /\ "content_themes" \in DOMAIN data ) =>
                    /\ file' \in {file, NotJson}
                    /\ theme \in Keys(data'.content_themes)
                    /\ ~Raises(data', "has_used_theme_recently") =>
                           has_used_theme_recently_returns(data', now', theme, 6)
      ]_vars

\* C18 witness: the disk is failing, no file was ever written, and the
\* store in memory holds "A lesson learned", which the check finds
C18_Witness ==
    /\ disk = "failing"
    /\ file = Absent
    /\ Contents(data.posted_content) = <<TextLesson>>
    /\ has_posted_similar_content_returns(data, now, TextLesson, NoContext)

\* C21: get_statistics returns, for each collection, the number of its
\* entries that are within the retention window at the time of the call,
\* with the threshold 0.15; the replied_tweets count is the number of tweet
\* ids marked as replied in the last 30 days
C21_StatisticsCountRetained ==
    LET stats == get_statistics_returns(data, now)
        fresh == RetentionFiltered(data, now)
    IN  /\ stats.similarity_threshold = 150
        /\ stats.posted_content = Len(fresh.posted_content)
        /\ stats.email_content = Len(fresh.email_content)
        /\ stats.used_rss_posts = Cardinality(fresh.used_rss_posts)
        /\ stats.content_themes = Cardinality(fresh.content_themes)
        /\ stats.replied_tweets =
               Cardinality({tweet_id \in Keys(lastReply) :
                               Age(Get(lastReply, tweet_id)) <= 30 * 24})

\* C27: when every record_post / record_write follows a can_post /
\* can_engage that returned true, with no other record in between,
\* posts_this_month never exceeds 500 and no day's count exceeds 16
C27_WriteLimitsHold ==
    /\ usage_data.posts_this_month <= 500
    /\ \A day \in Keys(usage_data.daily_posts) :
          Get(usage_data.daily_posts, day) <= 16

\* C27 witness: in February, after the rollover, sixteen writes were
\* recorded today and can_post returns false
C27_Witness ==
    /\ usage_data.current_month = 2
    /\ Month(now) = 2
    /\ GetOr(usage_data.daily_posts, Today(now), 0) = 16
    /\ usage_data.posts_this_month = 16
    /\ ~can_post_returns(usage_data, now)
    /\ ~permit

\* C28: every call of get_efficiency_stats returns in the end
C28_StatsReturns ==
    \A thread \in Threads :
        (pc[thread].at = "get_efficiency_stats") ~> (pc[thread].at = "idle")

\* the number of requests recorded for the endpoint in the 15 minutes
\* that end at the instant t
InWindow(endpoint, t) ==
    SetSum({req \in GetOr(endpoint_windows, endpoint, {}) :
               req[1] > t - 15 /\ req[1] <= t})

\* C29: with threads that record a request only after can_make_request
\* returned true, no 15-minute window holds more than the 300 requests
\* of the endpoint's limit
C29_WindowWithinLimit ==
    \A t \in ThreadInstants : InWindow("create_tweet", t) <= 300

IsPublish(c) == c.call \in {"post_tweet", "reply_to_tweet"}

\* C22: every text an operation of the client hands to post_tweet or
\* reply_to_tweet is a text for which has_posted_similar_content returned
\* false earlier in the same operation
C22_PublishOnlyAfterCheck ==
    \A i \in DOMAIN trace :
        IsPublish(trace[i]) =>
            \E j \in 1..(i - 1) :
                trace[j] = [call |-> "has_posted_similar_content",
                            text |-> trace[i].text, returns |-> "False"]

\* C22 witness: the tracker holds "It is what it is."; the operation
\* checked "A lesson learned" against it, got false and posted it
C22_Witness ==
    /\ Len(trace) >= 2
    /\ trace[1] = [call |-> "has_posted_similar_content",
                   text |-> TextLesson, returns |-> "False"]
    /\ trace[2] = [call |-> "post_tweet", text |-> TextLesson,
                   returns |-> "1001"]
    /\ \E i \in DOMAIN data.posted_content :
          data.posted_content[i].content = TextStop

\* C25: every text an operation of the client has published (post_tweet
\* or reply_to_tweet returned an id) is recorded with mark_content_posted
\* later in the same operation
C25_PublishedIsMarked ==
    \A i \in DOMAIN trace :
        (IsPublish(trace[i]) /\ trace[i].returns \notin {"None", "raises"}) =>
            \E j \in (i + 1)..Len(trace) :
                /\ trace[j].call = "mark_content_posted"
                /\ trace[j].text = trace[i].text

\* a step of one of the five mutating calls that got as far as its write
\* (self.data[...] did not raise KeyError) while writes to the file work
MarkWrites ==
    /\ disk = "ok"
    /\ \/ \E in \in FaultInputs, content_type \in ContentTypes :
             /\ ~Raises(data, "mark_content_posted")
             /\ mark_content_posted(in[1], content_type, in[2])
       \/ \E in \in FaultInputs, content_type \in ContentTypes :
             /\ ~Raises(data, "mark_email_content_generated")
             /\ mark_email_content_generated(in[1], content_type, in[2])
       \/ \E reply_id \in ReplyIds : mark_tweet_replied("t1", reply_id)
       \/ /\ ~Raises(data, "mark_rss_post_used")
          /\ mark_rss_post_used(Alice, TextLesson)
       \/ \E theme \in Themes :
             /\ ~Raises(data, "mark_theme_used")
             /\ mark_theme_used(theme)

C23_NoLostUpdate ==
    (file.exists /\ "json" \in DOMAIN file) =>
        /\ InWindowKept(data, file.json, now)
        /\ InWindowKept(email_data, file.json, now)

\* C26: a run that comes to the suggestions of an email sent less than
\* 14 days ago (the record of that email is still in the store), when
\* they classify as Personal and the theme of that email is not a recent
\* theme any more, has them reported as a content duplicate by
\* has_generated_similar_email
C26_SentSuggestionsReported ==
    \A mail \in sent :
        (/\ now - mail.at <= 14 * 24
         /\ ClassTable[<<StrOfList(mail.suggestions), NoContext>>] = "personal"
         /\ ~has_used_theme_recently_returns(email_data, now, mail.theme, 6)
         /\ \E i \in DOMAIN email_data.email_content :
                email_data.email_content[i].timestamp = isoformat(mail.at))
        => has_generated_similar_email_returns(
               email_data, now, StrOfList(mail.suggestions), NoContext)

====
